---- MODULE Spec2Model ----
(***************************************************************************)
(* A model of the FLMR late-interaction retriever                          *)
(* (src/src/transformers/models/flmr/modeling_flmr.py).                    *)
(*                                                                         *)
(* Tensors are sequences: a (N, len, dim) embedding tensor is a sequence   *)
(* of N rows, each a sequence of len embedding vectors.  The embedding     *)
(* axis is the one-dimensional instance: a vector is one number of         *)
(* EmbVals and the inner product of two vectors is their product.  Both    *)
(* encoders L2-normalise their output (lines 883 and 960) after zeroing    *)
(* the masked text rows (lines 854 and 925), so the vectors a scorer       *)
(* receives are the unit vectors -1 and 1 and the zero vector 0.  A query  *)
(* holds any of them (its padding rows are zero and take part in the       *)
(* score); a generated document holds unit vectors, and the claims about   *)
(* padded positions range over every vector there.                         *)
(***************************************************************************)
EXTENDS Integers, Sequences, FiniteSets, TLC

VARIABLES
    Q,          \* query tensor handed to the scorer: rows of q_len vectors
    D_padded,   \* padded document tensor: N rows of d_len vectors
    D_mask,     \* boolean mask of the documents: N rows of d_len flags
    scores,     \* what the last scoring call returned (a Result)
    pc,         \* position of the caller: "start" before a call, "done" after
    loaded_extensions,  \* class attribute: segmented_maxsim has been loaded
    docs,       \* docFromText's collection: per document its text and its image
    call,       \* docFromText's arguments and the model's configuration
    batches,    \* the chunks of the sorted collection
    reverse_indices,    \* the permutation recorded by the sort
    encoded_batches,    \* doc()'s output per chunk encoded so far
    ret,        \* what docFromText returned or raised (a Result)
    ipc,        \* position in docFromText: "idle", "entry", "loop", "returned"
    fwd,        \* forward's arguments besides the tensors
    procs,      \* per rank: its tensors and its position in the gather step
    comm,       \* per all_gather call: the tensors the ranks have contributed
    encArgs,    \* the arguments of a query(), doc() or span reader call
    encOut,     \* which of them was called and what it returned or raised
    net,        \* a model object: its class, configuration and attributes
    store,      \* the parameters of every module instance, by instance id
    netOut      \* what the last method call on the model object returned

scoreVars == <<Q, D_padded, D_mask, scores, pc, loaded_extensions>>
indexVars == <<docs, call, batches, reverse_indices, encoded_batches, ret, ipc>>
trainVars == <<fwd>>
distVars == <<procs, comm>>
encVars == <<encArgs, encOut>>
modelVars == <<net, store, netOut>>
vars == <<Q, D_padded, D_mask, scores, pc, loaded_extensions,
          docs, call, batches, reverse_indices, encoded_batches, ret, ipc,
          fwd, procs, comm, encArgs, encOut, net, store, netOut>>

(***************************************************************************)
(* Bounds of the model.                                                    *)
(***************************************************************************)
MaxDocs == 2
MaxDLen == 2
MaxQLen == 2
\* largest number of vectors a generated tensor holds (rows * length)
MaxCells == 4

EmbVals == {-1, 0, 1}
UnitVals == {-1, 1}

(***************************************************************************)
(* Results of a call: a value, or the exception the call raised.           *)
(***************************************************************************)
Ok(v) == [exc |-> "", val |-> v]
Raise(e) == [exc |-> e, val |-> <<>>]
NoResult == [exc |-> "none", val |-> <<>>]
IsOk(r) == r.exc = ""

(***************************************************************************)
(* Generic helpers on sequences.                                           *)
(***************************************************************************)
RECURSIVE SeqSum(_)
SeqSum(s) == IF s = <<>> THEN 0 ELSE Head(s) + SeqSum(Tail(s))

Max2(a, b) == IF a >= b THEN a ELSE b

RECURSIVE SeqMax(_)
SeqMax(s) == IF Len(s) = 1 THEN s[1] ELSE Max2(Head(s), SeqMax(Tail(s)))

RECURSIVE Flatten(_)
Flatten(ss) == IF ss = <<>> THEN <<>> ELSE Head(ss) \o Flatten(Tail(ss))

\* all (rows, len) tensors over S
Tensors(rows, len, S) == [1..rows -> [1..len -> S]]

(***************************************************************************)
(* The scorer.                                                             *)
(***************************************************************************)
Dot(d, q) == d * q

\* a slip in the pairing: every document meets the first query
MatMulDQ_FirstQueryOnly(D, Qq) ==
    [n \in 1..Len(D) |->
        [p \in 1..Len(D[n]) |->
            [t \in 1..Len(Qq[1]) |-> Dot(D[n][p], Qq[1][t])]]]

\* D_padded @ Q.permute(0, 2, 1): a batched matrix product; a single query
\* row is broadcast over the documents, otherwise row n meets row n.
MatMulDQ(D, Qq) ==
    [n \in 1..Len(D) |->
        [p \in 1..Len(D[n]) |->
            [t \in 1..Len(Qq[1]) |->
                Dot(D[n][p], (IF Len(Qq) = 1 THEN Qq[1] ELSE Qq[n])[t])]]]

Sentinel == -9999

\* D_mask.view(rows, len): the mask's flags in row-major order, regrouped
View(mask, rows, len) ==
    LET flat == Flatten(mask)
    IN  [n \in 1..rows |-> [p \in 1..len |-> flat[(n - 1) * len + p]]]

\* a slip in the masking: the padded positions keep their similarity
MaskedFill_Skipped(scores_padded, D_padding) == scores_padded

\* a slip in the masking: the padded positions are filled with zero
MaskedFill_Zero(scores_padded, D_padding) ==
    [n \in 1..Len(scores_padded) |->
        [p \in 1..Len(scores_padded[n]) |->
            IF D_padding[n][p]
            THEN [t \in 1..Len(scores_padded[n][p]) |-> 0]
            ELSE scores_padded[n][p]]]

\* scores_padded[D_padding] = -9999
MaskedFill(scores_padded, D_padding) ==
    [n \in 1..Len(scores_padded) |->
        [p \in 1..Len(scores_padded[n]) |->
            IF D_padding[n][p]
            THEN [t \in 1..Len(scores_padded[n][p]) |-> Sentinel]
            ELSE scores_padded[n][p]]]

\* scores_padded.max(1).values: per document and query token, the maximum
\* over the document positions
MaxOverDocTokens(filled) ==
    [n \in 1..Len(filled) |->
        [t \in 1..Len(filled[n][1]) |->
            SeqMax([p \in 1..Len(filled[n]) |-> filled[n][p][t]])]]

colbert_score_reduce(scores_padded, mask) ==
    LET rows == Len(scores_padded)
        len == Len(scores_padded[1])
    IN  IF Len(Flatten(mask)) # rows * len
        THEN Raise("RuntimeError")
        ELSE LET viewed == View(mask, rows, len)
                 D_padding == [n \in 1..rows |-> [p \in 1..len |-> ~viewed[n][p]]]
                 filled == MaskedFill(scores_padded, D_padding)
                 maxes == MaxOverDocTokens(filled)
             IN  Ok([n \in 1..rows |-> SeqSum(maxes[n])])

\* a slip in the shape check: any number of query rows is let through
QueryRowsAligned_Any(q_rows, num_docs) == TRUE

\* assert Q.size(0) in [1, D_padded.size(0)]
QueryRowsAligned(q_rows, num_docs) == q_rows \in {1, num_docs}

colbert_score(Qq, D, mask) ==
    IF ~QueryRowsAligned(Len(Qq), Len(D))
    THEN Raise("AssertionError")
    ELSE colbert_score_reduce(MatMulDQ(D, Qq), mask)

\* FLMRModelForRetrieval.score
score(Qq, D, mask) == colbert_score(Qq, D, mask)

\* the similarities after the masked fill and the maximum over positions:
\* the (N, q_len) tensor colbert_score_reduce sums
MaxSim(Qq, D, mask) ==
    LET viewed == View(mask, Len(D), Len(D[1]))
    IN  MaxOverDocTokens(MaskedFill(MatMulDQ(D, Qq),
            [n \in 1..Len(D) |-> [p \in 1..Len(D[n]) |-> ~viewed[n][p]]]))

(***************************************************************************)
(* The packed path.                                                        *)
(***************************************************************************)
\* the caller's packing: each document's mask-true rows, concatenated
RECURSIVE SelectRows(_, _)
SelectRows(row, flags) ==
    IF row = <<>> THEN <<>>
    ELSE (IF Head(flags) THEN <<Head(row)>> ELSE <<>>)
         \o SelectRows(Tail(row), Tail(flags))

Pack(D, mask) == Flatten([n \in 1..Len(D) |-> SelectRows(D[n], mask[n])])

RECURSIVE CountTrue(_)
CountTrue(flags) ==
    IF flags = <<>> THEN 0
    ELSE (IF Head(flags) THEN 1 ELSE 0) + CountTrue(Tail(flags))

Lengths(mask) == [n \in 1..Len(mask) |-> CountTrue(mask[n])]

\* offset of document n in the packed rows
RECURSIVE Offset(_, _)
Offset(lengths, n) == IF n = 1 THEN 0 ELSE lengths[n - 1] + Offset(lengths, n - 1)

\* segmented_maxsim_cpp: per document the sum over the query tokens of the
\* maximum over the document's own segment of the packed similarities
\* (an empty segment gives what the padded path gives for a document with no
\* unmasked position)
segmented_maxsim(packed_scores, lengths, nq) ==
    [n \in 1..Len(lengths) |->
        SeqSum([t \in 1..nq |->
            IF lengths[n] = 0 THEN Sentinel
            ELSE SeqMax([k \in 1..lengths[n] |->
                     packed_scores[Offset(lengths, n) + k][t]])])]

colbert_score_packed(Qq, D_packed, D_lengths, use_gpu, interaction, loaded) ==
    IF Len(Qq) # 1
    THEN Raise("AssertionError")    \* Q.squeeze(0) leaves three dimensions
    ELSE LET q == Qq[1]
             packed_scores == [k \in 1..Len(D_packed) |->
                                  [t \in 1..Len(q) |-> Dot(D_packed[k], q[t])]]
         IN  IF use_gpu \/ interaction = "flipr"
             THEN \* colbert_score_reduce(scores_padded, scores_mask, config):
                  \* three arguments for a function of two
                  Raise("TypeError")
             ELSE IF ~loaded
                  THEN Raise("AttributeError")  \* no segmented_maxsim attribute
                  ELSE Ok(segmented_maxsim(packed_scores, D_lengths, Len(q)))

(***************************************************************************)
(* Scoring specification: the inputs are drawn in Init, Score applies the  *)
(* scorer to them.                                                         *)
(***************************************************************************)
\* no forward call and no distributed group
TrainIdle == fwd = <<>>

DistIdle == procs = <<>> /\ comm = <<>>

\* no query() or doc() call of its own
EncIdle == encArgs = <<>> /\ encOut = <<>>

\* no model object under construction or in use
ModelIdle == net = <<>> /\ store = <<>> /\ netOut = <<>>

\* no docFromText call is in progress
IndexIdle ==
    /\ docs = <<>>
    /\ call = [bsize |-> 0, keep_dims |-> "True", to_cpu |-> FALSE,
               mode |-> "text", concat_vision |-> FALSE, concat_text |-> TRUE]
    /\ batches = <<>>
    /\ reverse_indices = <<>>
    /\ encoded_batches = <<>>
    /\ ret = NoResult
    /\ ipc = "idle"

ScoreShapes ==
    {s \in [n : 1..MaxDocs, dl : 1..MaxDLen, qr : 1..MaxDocs, ql : 1..MaxQLen] :
        /\ s.qr \in {1, s.n}
        /\ s.n * s.dl <= MaxCells
        /\ s.qr * s.ql <= MaxCells}

ScoreInit ==
    /\ \E s \in ScoreShapes :
          /\ Q \in Tensors(s.qr, s.ql, EmbVals)
          /\ D_padded \in Tensors(s.n, s.dl, UnitVals)
          /\ D_mask \in Tensors(s.n, s.dl, BOOLEAN)
    /\ scores = NoResult
    /\ pc = "start"
    /\ loaded_extensions = FALSE
    /\ IndexIdle
    /\ TrainIdle
    /\ DistIdle
    /\ EncIdle
    /\ ModelIdle

Score ==
    /\ pc = "start"
    /\ scores' = score(Q, D_padded, D_mask)
    /\ pc' = "done"
    /\ UNCHANGED <<Q, D_padded, D_mask, loaded_extensions>>
    /\ UNCHANGED indexVars
    /\ UNCHANGED <<fwd, procs, comm>>
    /\ UNCHANGED encVars
    /\ UNCHANGED modelVars

ScoreNext == Score

ScoreSpec == ScoreInit /\ [][ScoreNext]_vars

\* the set-theoretic maximum of a non-empty finite set of integers
SetMax(S) == CHOOSE m \in S : \A x \in S : m >= x

\* the query the scorer pairs with document n
PairedQuery(n) == IF Len(Q) = 1 THEN Q[1] ELSE Q[n]

\* C1: colbert_score / score returns exactly N scores, and score n is the sum
\* over the tokens t of the query paired with document n (Q[0] for a single
\* query, else Q[n]) of the maximum over the document positions p of
\* dot(D[n][p], q_t) where M[n][p] holds and of the sentinel -9999 where it
\* does not; no other query/document pair enters score n.
C1_ScoreIsSumOfMaskedMax ==
    pc = "done" =>
        /\ IsOk(scores)
        /\ Len(scores.val) = Len(D_padded)
        /\ \A n \in 1..Len(D_padded) :
              scores.val[n] =
                SeqSum([t \in 1..Len(PairedQuery(n)) |->
                    SetMax({IF D_mask[n][p]
                            THEN Dot(D_padded[n][p], PairedQuery(n)[t])
                            ELSE Sentinel : p \in 1..Len(D_padded[n])})])

\* pairwise mode with two different queries, a document with a masked and an
\* unmasked position, and scores that differ between the documents
C1_Witness ==
    /\ pc = "done"
    /\ IsOk(scores)
    /\ Len(Q) = 2 /\ Len(D_padded) = 2 /\ Len(Q[1]) = 2
    /\ Q[1] # Q[2]
    /\ \E p1, p2 \in 1..Len(D_padded[2]) : D_mask[2][p1] /\ ~D_mask[2][p2]
    /\ scores.val[1] # scores.val[2]
    /\ scores.val[2] > 0

\* the document tensors of D's shape that agree with D wherever the mask is true
SameWhereUnmasked(D, mask) ==
    {D2 \in Tensors(Len(D), Len(D[1]), EmbVals) :
        \A n \in 1..Len(D) : \A p \in 1..Len(D[n]) :
            mask[n][p] => D2[n][p] = D[n][p]}

\* C2: padded positions never influence a score: any document tensor with
\* the same mask that agrees with D at every unmasked position gets the same
\* scores, and for a document with an unmasked position every query token's
\* maximum is attained at an unmasked position.
C2_PaddingNeverInfluencesScore ==
    pc = "done" /\ IsOk(scores) =>
        /\ \A D2 \in SameWhereUnmasked(D_padded, D_mask) :
              colbert_score(Q, D2, D_mask) = scores
        /\ LET maxes == MaxSim(Q, D_padded, D_mask)
           IN  \A n \in 1..Len(D_padded) :
                 (\E p \in 1..Len(D_padded[n]) : D_mask[n][p]) =>
                    \A t \in 1..Len(PairedQuery(n)) :
                       \E p \in 1..Len(D_padded[n]) :
                          /\ D_mask[n][p]
                          /\ Dot(D_padded[n][p], PairedQuery(n)[t]) = maxes[n][t]

\* a masked position whose similarity beats every unmasked one of its document
C2_Witness ==
    /\ pc = "done"
    /\ IsOk(scores)
    /\ \E n \in 1..Len(D_padded) : \E p, p2 \in 1..Len(D_padded[n]) :
          \E t \in 1..Len(PairedQuery(n)) :
             /\ ~D_mask[n][p]
             /\ D_mask[n][p2]
             /\ Dot(D_padded[n][p], PairedQuery(n)[t])
                  > MaxSim(Q, D_padded, D_mask)[n][t]

\* the documents with no unmasked position / with at least one
FullyMasked(n) == \A p \in 1..Len(D_mask[n]) : ~D_mask[n][p]

FreeShapes ==
    {s \in [n : 1..MaxDocs, dl : 1..MaxDLen, qr : 1..MaxDocs, ql : 1..MaxQLen,
             mn : 1..MaxDocs, ml : 1..MaxDLen] :
        /\ s.n * s.dl <= MaxCells
        /\ s.qr * s.ql <= MaxCells
        /\ s.mn * s.ml <= MaxCells}

ShapeInit ==
    /\ \E s \in FreeShapes :
          /\ Q \in Tensors(s.qr, s.ql, UnitVals)
          /\ D_padded \in Tensors(s.n, s.dl, UnitVals)
          /\ D_mask \in Tensors(s.mn, s.ml, BOOLEAN)
    /\ scores = NoResult
    /\ pc = "start"
    /\ loaded_extensions = FALSE
    /\ IndexIdle
    /\ TrainIdle
    /\ DistIdle
    /\ EncIdle
    /\ ModelIdle

ShapeSpec == ShapeInit /\ [][ScoreNext]_vars

\* C21: scoring in pairwise mode fails with an error and returns no scores
\* whenever the query tensor's row count is neither 1 nor the number of
\* documents.
C21_MisalignedQueryRowsRejected ==
    (pc = "done" /\ Len(Q) \notin {1, Len(D_padded)}) =>
        /\ ~IsOk(scores)
        /\ scores.exc = "AssertionError"
        /\ scores.val = <<>>

\* two query rows scored against one document, the mask fitting the document
C21_Witness ==
    /\ pc = "done"
    /\ Len(Q) = 2 /\ Len(D_padded) = 1
    /\ Len(D_mask) = 1 /\ Len(D_mask[1]) = Len(D_padded[1])
    /\ scores = Raise("AssertionError")

\* the mask has the shape (N, d_len) of the document tensor
MaskMatches ==
    /\ Len(D_mask) = Len(D_padded)
    /\ Len(D_mask[1]) = Len(D_padded[1])

\* C22: scoring fails with an error and returns no scores whenever the
\* mask's document count or per-document length differs from (N, d_len) of
\* D; a mismatched mask is never regrouped and used.
C22_MismatchedMaskRejected ==
    (pc = "done" /\ ~MaskMatches) => ~IsOk(scores)

(***************************************************************************)
(* Packed-path specification: a single query, the documents packed by the  *)
(* caller; the extension is loaded only by try_load_torch_extensions.      *)
(***************************************************************************)
PackedInit ==
    /\ \E s \in ScoreShapes :
          /\ s.qr = 1
          /\ Q \in Tensors(1, s.ql, EmbVals)
          /\ D_padded \in Tensors(s.n, s.dl, UnitVals)
          /\ D_mask \in Tensors(s.n, s.dl, BOOLEAN)
    /\ scores = NoResult
    /\ pc = "start"
    /\ loaded_extensions = FALSE
    /\ IndexIdle
    /\ TrainIdle
    /\ DistIdle
    /\ EncIdle
    /\ ModelIdle

\* the classmethod: nothing is loaded when use_gpu is set (the constructor
\* passes True) or when the extension is there already
try_load_torch_extensions(use_gpu) ==
    /\ pc = "start"
    /\ loaded_extensions' = (IF loaded_extensions \/ use_gpu
                              THEN loaded_extensions ELSE TRUE)
    /\ UNCHANGED <<Q, D_padded, D_mask, scores, pc>>
    /\ UNCHANGED indexVars
    /\ UNCHANGED <<fwd, procs, comm>>
    /\ UNCHANGED encVars
    /\ UNCHANGED modelVars

TryLoad == \E use_gpu \in BOOLEAN : try_load_torch_extensions(use_gpu)

ScorePacked ==
    /\ pc = "start"
    /\ \E use_gpu \in BOOLEAN : \E interaction \in {"colbert", "flipr"} :
          scores' = colbert_score_packed(Q, Pack(D_padded, D_mask),
                        Lengths(D_mask), use_gpu, interaction, loaded_extensions)
    /\ pc' = "done"
    /\ UNCHANGED <<Q, D_padded, D_mask, loaded_extensions>>
    /\ UNCHANGED indexVars
    /\ UNCHANGED <<fwd, procs, comm>>
    /\ UNCHANGED encVars
    /\ UNCHANGED modelVars

PackedNext == TryLoad \/ ScorePacked

PackedSpec == PackedInit /\ [][PackedNext]_vars

\* C3: for a single query the packed path returns, on both of its branches,
\* a score per document, equal to the padded-mask path's score.
C3_PackedAgreesWithPadded ==
    pc = "done" =>
        /\ IsOk(scores)
        /\ scores = colbert_score(Q, D_padded, D_mask)

(***************************************************************************)
(* Document encoding: FLMRModelForRetrieval.doc.                           *)
(*                                                                         *)
(* A token id is 0 (padding), an id of the skiplist (punctuation) or any   *)
(* other id.  An embedding row is identified by what the encoder computed  *)
(* it from: the text row of position pos of the document with token ids    *)
(* src, the vision row pos of the image src, or the zero row that the      *)
(* multiplication by the mask leaves.  L2 normalisation keeps the identity *)
(* of a row and keeps the zero row zero.                                   *)
(***************************************************************************)
None == <<>>

TextRow(ids, p) == [seg |-> "text", src |-> ids, pos |-> p]
VisionRow(img, k) == [seg |-> "vision", src |-> <<img>>, pos |-> k]
ZeroRow == [seg |-> "zero", src |-> <<>>, pos |-> 0]

\* mapping_network_prefix_length of the configuration
PrefixLength == 2

\* token ids of the punctuation symbols (built once by the constructor)
skiplist == {2}

\* FLMRModelForRetrieval.mask
mask(input_ids, skip) ==
    [n \in 1..Len(input_ids) |->
        [p \in 1..Len(input_ids[n]) |->
            (input_ids[n][p] \notin skip) /\ (input_ids[n][p] # 0)]]

\* the context text encoder and its linear projection: one row per position
context_text_encoder(input_ids, attention_mask) ==
    [n \in 1..Len(input_ids) |->
        [p \in 1..Len(input_ids[n]) |-> TextRow(input_ids[n], p)]]

\* text_embeddings * mask
MulByMask(embeddings, m) ==
    [n \in 1..Len(embeddings) |->
        [p \in 1..Len(embeddings[n]) |->
            IF m[n][p] THEN embeddings[n][p] ELSE ZeroRow]]

\* the vision encoder's pooled vector (or the precomputed feature), mapped by
\* the projection network to PrefixLength rows per image
context_vision_projection(images) ==
    [n \in 1..Len(images) |-> [k \in 1..PrefixLength |-> VisionRow(images[n], k)]]

\* torch.cat([a, b], dim=1)
CatDim1(a, b) == [n \in 1..Len(a) |-> a[n] \o b[n]]

\* a slip in the check of the image inputs: a feature next to pixels is let
\* through
BothImageInputs_Allowed(pixel_values, image_features) == FALSE

\* the condition of the assertion of lines 844 and 915
BothImageInputs(pixel_values, image_features) ==
    pixel_values # None /\ image_features # None

\* a slip in the dispatch: only the vision segment is looked for
Unassigned_VisionOnly(has_image, has_text, concat_vision, concat_text) ==
    concat_vision /\ ~has_image

\* lines 874-882 and 947-960: the branch taken reads a segment that no
\* modality branch assigned, or no branch is taken and the result is read
Unassigned(has_image, has_text, concat_vision, concat_text) ==
    \/ concat_vision /\ ~has_image
    \/ concat_text /\ ~has_text
    \/ ~concat_vision /\ ~concat_text

\* keep_dims is False: D becomes a list of the rows kept per document, and
\* pooler_output=D[:, 0, :] then indexes that list with a tuple
RaggedOutput(D, m, return_mask) == Raise("TypeError")

doc(input_ids, attention_mask, pixel_values, image_features, concat_vision, concat_text, keep_dims, return_mask) ==
    LET has_image == pixel_values # None \/ image_features # None
        has_text == input_ids # None /\ attention_mask # None
        text_mask == mask(input_ids, skiplist)
        text_embeddings ==
            MulByMask(context_text_encoder(input_ids, attention_mask), text_mask)
        vision_embeddings ==
            context_vision_projection(
                IF image_features # None THEN image_features ELSE pixel_values)
        image_mask ==
            [n \in 1..Len(vision_embeddings) |-> [k \in 1..PrefixLength |-> TRUE]]
        both == concat_vision /\ concat_text
        D == IF both THEN CatDim1(vision_embeddings, text_embeddings)
             ELSE IF concat_vision THEN vision_embeddings
             ELSE text_embeddings
        m == IF both THEN CatDim1(text_mask, image_mask)
             ELSE IF concat_vision THEN image_mask
             ELSE text_mask
    IN  IF keep_dims \notin {"True", "False", "return_mask"}
        THEN Raise("AssertionError")
        ELSE IF has_image /\ BothImageInputs(pixel_values, image_features)
        THEN Raise("AssertionError")
        ELSE IF Unassigned(has_image, has_text, concat_vision, concat_text)
        THEN Raise("UnboundLocalError")   \* a tensor that was never assigned
        ELSE IF keep_dims = "False"
        THEN RaggedOutput(D, m, return_mask)
        ELSE Ok([late |-> D, context_mask |-> IF return_mask THEN m ELSE None])

\* FLMRModelForIndexing.doc: the output object has no cpu() method
IndexingDoc(input_ids, attention_mask, pixel_values, image_features, concat_vision, concat_text, keep_dims, return_mask, to_cpu) ==
    LET out == doc(input_ids, attention_mask, pixel_values, image_features,
                   concat_vision, concat_text, keep_dims, return_mask)
    IN  IF IsOk(out) /\ to_cpu THEN Raise("AttributeError") ELSE out

(***************************************************************************)
(* Batch encoding: FLMRModelForIndexing.docFromText.                       *)
(***************************************************************************)
\* the largest collection handed to docFromText
MaxIndexDocs == 3

\* the texts of the collection, as token ids: 1 is a word, 2 a punctuation
TextPool == {<<1>>, <<1, 2>>, <<2, 1>>}

Modes == {"text", "features", "paths"}

\* the context tokenizer: every text padded with 0 to the longest one, and
\* the attention mask of the tokens that are not padding
Tokenize(texts) ==
    LET maxlen == SeqMax([i \in 1..Len(texts) |-> Len(texts[i])])
    IN  [input_ids |->
            [i \in 1..Len(texts) |->
                [p \in 1..maxlen |-> IF p <= Len(texts[i]) THEN texts[i][p] ELSE 0]],
         attention_mask |->
            [i \in 1..Len(texts) |-> [p \in 1..maxlen |-> p <= Len(texts[i])]]]

\* sort().indices: the positions of the keys in ascending order of key, equal
\* keys in their order of appearance
ArgSort(keys) ==
    LET n == Len(keys)
        rank(i) == Cardinality({j \in 1..n :
                       keys[j] < keys[i] \/ (keys[j] = keys[i] /\ j < i)}) + 1
    IN  [k \in 1..n |-> CHOOSE i \in 1..n : rank(i) = k]

\* x[indices]
Gather(x, indices) == [k \in 1..Len(indices) |-> x[indices[k]]]

\* a slip in the sort: the ids and the mask are reordered, the parallel arrays
\* are left in the caller's order
sort_by_length_TextOnly(ids, attention_mask, bsize, image_features, image_paths) ==
    IF Len(ids) <= bsize
    THEN [ids |-> ids, mask |-> attention_mask, image_features |-> image_features,
          image_paths |-> image_paths,
          reverse_indices |-> [i \in 1..Len(ids) |-> i]]
    ELSE LET indices == ArgSort([i \in 1..Len(ids) |-> CountTrue(attention_mask[i])])
         IN  [ids |-> Gather(ids, indices),
              mask |-> Gather(attention_mask, indices),
              image_features |-> image_features,
              image_paths |-> image_paths,
              reverse_indices |-> ArgSort(indices)]

\* _sort_by_length: one sort key, the number of attended tokens, applied to
\* the ids, the mask and every parallel array; no sort when the collection
\* fits one batch
sort_by_length(ids, attention_mask, bsize, image_features, image_paths) ==
    IF Len(ids) <= bsize
    THEN [ids |-> ids, mask |-> attention_mask, image_features |-> image_features,
          image_paths |-> image_paths,
          reverse_indices |-> [i \in 1..Len(ids) |-> i]]
    ELSE LET indices == ArgSort([i \in 1..Len(ids) |-> CountTrue(attention_mask[i])])
         IN  [ids |-> Gather(ids, indices),
              mask |-> Gather(attention_mask, indices),
              image_features |-> IF image_features = None THEN None
                                 ELSE Gather(image_features, indices),
              image_paths |-> IF image_paths = None THEN None
                              ELSE Gather(image_paths, indices),
              reverse_indices |-> ArgSort(indices)]

\* x[offset:offset+bsize], offset counted from 0
Slice(x, offset, bsize) ==
    IF x = None THEN None
    ELSE SubSeq(x, offset + 1, IF offset + bsize <= Len(x) THEN offset + bsize ELSE Len(x))

\* _split_into_batches: contiguous chunks of at most bsize documents, each a
\* tuple of the input arrays
split_into_batches(ids, attention_mask, bsize, image_features, image_paths) ==
    [c \in 1..((Len(ids) + bsize - 1) \div bsize) |->
        [kind |-> "tuple",
         ids |-> Slice(ids, (c - 1) * bsize, bsize),
         mask |-> Slice(attention_mask, (c - 1) * bsize, bsize),
         image_features |-> Slice(image_features, (c - 1) * bsize, bsize),
         image_paths |-> Slice(image_paths, (c - 1) * bsize, bsize)]]

\* the collection unpacked into its parallel arrays (lines 1108-1129): an
\* absent feature or path is None, written 0
Texts(ds) == [i \in 1..Len(ds) |-> ds[i].text]
ImageFeatures(ds, mode) ==
    IF mode = "text" THEN None
    ELSE [i \in 1..Len(ds) |-> IF mode = "features" THEN ds[i].img ELSE 0]
ImagePaths(ds, mode) ==
    IF mode = "text" THEN None
    ELSE [i \in 1..Len(ds) |-> IF mode = "paths" THEN ds[i].img ELSE 0]

\* a slip in the sort step: the documents are sorted and the permutation that
\* restores them is not recorded
SortAndSplit_IdentityReverse(ids, attention_mask, bsize, image_features, image_paths) ==
    LET sorted == sort_by_length(ids, attention_mask, bsize, image_features, image_paths)
    IN  [batches |-> split_into_batches(sorted.ids, sorted.mask, bsize,
                         sorted.image_features, sorted.image_paths),
         reverse_indices |-> [i \in 1..Len(ids) |-> i]]

\* lines 1137-1147: sort by length, keep the restoring permutation, split
SortAndSplit(ids, attention_mask, bsize, image_features, image_paths) ==
    LET sorted == sort_by_length(ids, attention_mask, bsize, image_features, image_paths)
    IN  [batches |-> split_into_batches(sorted.ids, sorted.mask, bsize,
                         sorted.image_features, sorted.image_paths),
         reverse_indices |-> sorted.reverse_indices]

\* _stack_3D_tensors: size(0) and size(1) are read of every group, so every
\* group has to be a tensor; the groups are zero-padded to the longest and
\* stacked in order
stack_3D_tensors(groups) ==
    IF \E g \in 1..Len(groups) : groups[g].kind # "tensor"
    THEN Raise("AttributeError")
    ELSE LET maxlen == SeqMax([g \in 1..Len(groups) |-> Len(groups[g].rows[1])])
             padded(row) == [p \in 1..maxlen |->
                                IF p <= Len(row) THEN row[p] ELSE ZeroRow]
         IN  Ok(Flatten([g \in 1..Len(groups) |->
                    [r \in 1..Len(groups[g].rows) |-> padded(groups[g].rows[r])]]))

\* the encoding of one chunk (lines 1165-1197)
EncodeBatch(batch, c) ==
    LET keep_dims_ == IF c.keep_dims = "flatten" THEN "return_mask" ELSE c.keep_dims
        return_mask == (c.keep_dims = "flatten")
    IN  IF c.mode = "text"
        THEN IndexingDoc(batch.ids, batch.mask, None, None,
                 c.concat_vision, c.concat_text, keep_dims_, return_mask, c.to_cpu)
        ELSE IF c.mode = "features"
        THEN IndexingDoc(batch.ids, batch.mask, None, batch.image_features,
                 c.concat_vision, c.concat_text, keep_dims_, return_mask, c.to_cpu)
        ELSE \* the images of image_paths are opened and preprocessed to pixels
             IndexingDoc(batch.ids, batch.mask, batch.image_paths, None,
                 c.concat_vision, c.concat_text, keep_dims_, return_mask, c.to_cpu)

\* a slip in the flattening: every row is kept, the padded ones too
FlattenRows_KeepAll(D, m) == Flatten(D)

\* D.view(-1, dim)[mask.flatten()]: the rows whose mask flag is set
FlattenRows(D, m) == SelectRows(Flatten(D), Flatten(m))

\* the recombination of the chunks (lines 1202-1229)
Recombine(bs, encoded, rev, c) ==
    IF c.keep_dims = "True"
    THEN LET D == stack_3D_tensors(bs)
         IN  IF IsOk(D) THEN Ok(Gather(D.val, rev)) ELSE D
    ELSE IF c.keep_dims = "flatten"
    THEN LET D == Gather(Flatten([b \in 1..Len(encoded) |-> encoded[b].late]), rev)
             m == Gather(Flatten([b \in 1..Len(encoded) |-> encoded[b].context_mask]), rev)
             doclens == [i \in 1..Len(m) |-> CountTrue(m[i])]
         IN  Ok([D |-> FlattenRows(D, m), doclens |-> doclens])
    ELSE \* the members of the chunk tuples, indexed by reverse_indices
         LET members == Flatten([b \in 1..Len(bs) |->
                            IF bs[b].image_features = None
                            THEN <<bs[b].ids, bs[b].mask>>
                            ELSE <<bs[b].ids, bs[b].mask,
                                   bs[b].image_features, bs[b].image_paths>>])
         IN  IF \E i \in 1..Len(rev) : rev[i] > Len(members)
             THEN Raise("IndexError")
             ELSE Ok(Gather(members, rev))

IndexInit ==
    /\ \E n \in 1..MaxIndexDocs : \E texts \in [1..n -> TextPool] :
          /\ docs = [i \in 1..n |-> [text |-> texts[i], img |-> i]]
          /\ call \in [bsize : 0..n, keep_dims : {"True", "False", "flatten"},
                       to_cpu : BOOLEAN, mode : Modes,
                       concat_vision : BOOLEAN, concat_text : BOOLEAN]
    /\ batches = <<>>
    /\ reverse_indices = <<>>
    /\ encoded_batches = <<>>
    /\ ret = NoResult
    /\ ipc = "entry"
    /\ Q = <<>> /\ D_padded = <<>> /\ D_mask = <<>>
    /\ scores = NoResult
    /\ pc = "idle"
    /\ loaded_extensions = FALSE
    /\ TrainIdle
    /\ DistIdle
    /\ EncIdle
    /\ ModelIdle

\* docFromText with a batch size: tokenise, sort, split (lines 1131-1147)
DocFromTextSplit ==
    /\ ipc = "entry"
    /\ call.bsize # 0
    /\ LET enc == Tokenize(Texts(docs))
           ss == SortAndSplit(enc.input_ids, enc.attention_mask, call.bsize,
                     ImageFeatures(docs, call.mode), ImagePaths(docs, call.mode))
       IN  /\ batches' = ss.batches
           /\ reverse_indices' = ss.reverse_indices
    /\ ipc' = "loop"
    /\ UNCHANGED <<docs, call, encoded_batches, ret>>
    /\ UNCHANGED scoreVars
    /\ UNCHANGED <<fwd, procs, comm>>
    /\ UNCHANGED encVars
    /\ UNCHANGED modelVars

\* docFromText without a batch size: one doc() call on the texts alone
\* (lines 1231-1232)
DocFromTextDirect ==
    /\ ipc = "entry"
    /\ call.bsize = 0
    /\ LET enc == Tokenize(Texts(docs))
       IN  ret' = IndexingDoc(enc.input_ids, enc.attention_mask, None, None,
                      call.concat_vision, call.concat_text, call.keep_dims,
                      TRUE, call.to_cpu)
    /\ ipc' = "returned"
    /\ UNCHANGED <<docs, call, batches, reverse_indices, encoded_batches>>
    /\ UNCHANGED scoreVars
    /\ UNCHANGED <<fwd, procs, comm>>
    /\ UNCHANGED encVars
    /\ UNCHANGED modelVars

\* one turn of the loop over the chunks (lines 1164-1199); an exception of
\* doc() ends the call
EncodeChunk ==
    /\ ipc = "loop"
    /\ Len(encoded_batches) < Len(batches)
    /\ LET out == EncodeBatch(batches[Len(encoded_batches) + 1], call)
       IN  IF IsOk(out)
           THEN /\ encoded_batches' = Append(encoded_batches, out.val)
                /\ UNCHANGED <<ret, ipc>>
           ELSE /\ ret' = out
                /\ ipc' = "returned"
                /\ UNCHANGED encoded_batches
    /\ UNCHANGED <<docs, call, batches, reverse_indices>>
    /\ UNCHANGED scoreVars
    /\ UNCHANGED <<fwd, procs, comm>>
    /\ UNCHANGED encVars
    /\ UNCHANGED modelVars

\* after the loop: the recombination and the return (lines 1202-1229)
DocFromTextReturn ==
    /\ ipc = "loop"
    /\ Len(encoded_batches) = Len(batches)
    /\ ret' = Recombine(batches, encoded_batches, reverse_indices, call)
    /\ ipc' = "returned"
    /\ UNCHANGED <<docs, call, batches, reverse_indices, encoded_batches>>
    /\ UNCHANGED scoreVars
    /\ UNCHANGED <<fwd, procs, comm>>
    /\ UNCHANGED encVars
    /\ UNCHANGED modelVars

IndexNext ==
    \/ DocFromTextSplit
    \/ DocFromTextDirect
    \/ EncodeChunk
    \/ DocFromTextReturn

IndexSpec == IndexInit /\ [][IndexNext]_vars

(***************************************************************************)
(* Indexing with image files that may fail to load: the specification      *)
(* above together with the failure of Image.open in the loop.              *)
(***************************************************************************)
\* a slip in the loading: an unreadable file gives a placeholder image
ImageOpen_Placeholder(image_path, readable) == Ok(image_path)

\* Image.open(image_path).convert("RGB") (line 1178): the image, or the
\* error of a file that cannot be opened or decoded
ImageOpen(image_path, readable) ==
    IF readable THEN Ok(image_path) ELSE Raise("OSError")

\* one turn of the loop in which an image of the chunk fails to load: the
\* list comprehension of line 1178 is inside no try block, so the error
\* leaves docFromText before doc() is called and before the append
ImageLoadFails ==
    /\ ipc = "loop"
    /\ call.mode = "paths"
    /\ Len(encoded_batches) < Len(batches)
    /\ LET image_paths == batches[Len(encoded_batches) + 1].image_paths
       IN  \E i \in 1..Len(image_paths) :
              ret' = ImageOpen(image_paths[i], FALSE)
    /\ ipc' = "returned"
    /\ UNCHANGED <<docs, call, batches, reverse_indices, encoded_batches>>
    /\ UNCHANGED scoreVars
    /\ UNCHANGED <<fwd, procs, comm>>
    /\ UNCHANGED encVars
    /\ UNCHANGED modelVars

IndexLoadNext ==
    \/ DocFromTextSplit
    \/ DocFromTextDirect
    \/ EncodeChunk
    \/ ImageLoadFails
    \/ DocFromTextReturn

IndexLoadSpec == IndexInit /\ [][IndexLoadNext]_vars

\* a call that ended before every chunk was encoded ended with an error and
\* handed back nothing
NoPartialResult ==
    (ipc = "returned" /\ call.bsize # 0 /\ Len(encoded_batches) < Len(batches)) =>
        /\ ~IsOk(ret)
        /\ ret.val = <<>>

\* the encoded chunks only grow, by one chunk at the end, in chunk order
EncodedOnce ==
    /\ Len(encoded_batches') <= Len(encoded_batches) + 1
    /\ SubSeq(encoded_batches', 1, Len(encoded_batches)) = encoded_batches

\* nothing happens after the call has returned
ReturnedIsFinal == ipc = "returned" => UNCHANGED indexVars

\* a failure to load an image ends the call with that error as its result
LoadFailureEndsCall ==
    (ipc = "loop" /\ ipc' = "returned" /\ Len(encoded_batches) < Len(batches)
        /\ IsOk(EncodeBatch(batches[Len(encoded_batches) + 1], call))) =>
            /\ ret' = Raise("OSError")
            /\ encoded_batches' = encoded_batches

\* C24: if loading an image of a chunk fails during docFromText, the call
\* ends with that error handed to the caller: it returns no embeddings, not
\* even those of the chunks already encoded, encodes no later chunk and never
\* tries the failed chunk again; every chunk is encoded at most once.
C24_ImageLoadFailurePropagates ==
    /\ [](NoPartialResult /\ Len(encoded_batches) <= Len(batches))
    /\ [][EncodedOnce /\ ReturnedIsFinal /\ LoadFailureEndsCall]_vars

\* three chunks of one document: the first is encoded, an image of the second
\* fails to load, the third is never reached
C24_Witness ==
    /\ ipc = "returned"
    /\ ret = Raise("OSError")
    /\ Len(batches) = 3
    /\ Len(encoded_batches) = 1

(***************************************************************************)
(* What the claims about encoding compare the results with.                *)
(***************************************************************************)
\* the token ids of the document at original position i
IdsOf(i) == Tokenize(Texts(docs)).input_ids[i]

\* the text positions of document i that are neither padding nor punctuation
KeptTextRows(i) ==
    LET ids == IdsOf(i)
    IN  SelectRows([p \in 1..Len(ids) |-> TextRow(ids, p)],
                   [p \in 1..Len(ids) |-> ids[p] # 0 /\ ids[p] \notin skiplist])

\* the valid rows of document i: its vision rows, then its kept text rows,
\* as far as the configuration asks for them
ValidRows(i) ==
    (IF call.concat_vision
     THEN [k \in 1..PrefixLength |-> VisionRow(docs[i].img, k)] ELSE <<>>)
    \o (IF call.concat_text THEN KeptTextRows(i) ELSE <<>>)

\* the whole collection in original order as one single batch, encoded with
\* the mask returned
SingleBatch ==
    LET enc == Tokenize(Texts(docs))
    IN  EncodeBatch([kind |-> "tuple", ids |-> enc.input_ids,
                     mask |-> enc.attention_mask,
                     image_features |-> ImageFeatures(docs, call.mode),
                     image_paths |-> ImagePaths(docs, call.mode)],
                    [call EXCEPT !.keep_dims = "flatten"])

SingleBatchRows(i) ==
    SelectRows(SingleBatch.val.late[i], SingleBatch.val.context_mask[i])

\* rows first+1 .. first+n of a flattened tensor
Piece(D, lens, i) == SubSeq(D, Offset(lens, i) + 1, Offset(lens, i) + lens[i])

Identity(n) == [i \in 1..n |-> i]

\* C4: when doc() is asked for both modalities, the first prefix_length
\* positions of the combined embeddings and of the combined mask are the
\* vision segment (mask true there) and the others are the text segment, so
\* that mask position p describes embedding position p.
C4_VisionSegmentFirstInMask ==
    call.concat_vision /\ call.concat_text /\ call.keep_dims = "flatten" =>
        \A b \in 1..Len(encoded_batches) :
            \A n \in 1..Len(encoded_batches[b].late) :
                LET row == encoded_batches[b].late[n]
                    m == encoded_batches[b].context_mask[n]
                    ids == batches[b].ids[n]
                IN  /\ Len(m) = Len(row)
                    /\ \A p \in 1..Len(row) :
                          IF p <= PrefixLength
                          THEN row[p].seg = "vision" /\ m[p]
                          ELSE /\ row[p].seg # "vision"
                               /\ m[p] = (ids[p - PrefixLength] # 0
                                          /\ ids[p - PrefixLength] \notin skiplist)

\* C5: for every collection, order and batch size b >= 1, docFromText gives
\* the document at original position i the valid-token embeddings that the
\* single batch of the whole collection gives it, in each output mode.
C5_BatchedEqualsSingleBatch ==
    ipc = "returned" /\ call.bsize >= 1 /\ IsOk(SingleBatch) =>
        /\ IsOk(ret)
        /\ \A i \in 1..Len(docs) :
              SingleBatchRows(i) =
                 (IF call.keep_dims = "flatten"
                  THEN Piece(ret.val.D, ret.val.doclens, i)
                  ELSE IF call.keep_dims = "True"
                  THEN SelectRows(ret.val[i], SingleBatch.val.context_mask[i])
                  ELSE ret.val[i])

\* C6: in dense mode docFromText returns the per-chunk encoder outputs,
\* zero-padded to the longest, stacked in chunk order and indexed by
\* reverse_indices.
C6_DenseStacksEncoderOutputs ==
    /\ ipc = "returned"
    /\ call.keep_dims = "True"
    /\ call.bsize >= 1
    /\ Len(encoded_batches) = Len(batches)
    => /\ IsOk(ret)
       /\ ret.val =
            Gather(Flatten([b \in 1..Len(encoded_batches) |-> encoded_batches[b].late]),
                   reverse_indices)

\* C7: in flattened mode sum(doclens) = number of rows of D = number of true
\* entries of the concatenated, reorder-restored mask, and len(doclens) is
\* the number of input documents.
C7_FlattenCountsAgree ==
    ipc = "returned" /\ call.keep_dims = "flatten" /\ IsOk(ret) =>
        LET restored == Gather(Flatten([b \in 1..Len(encoded_batches) |->
                                   encoded_batches[b].context_mask]), reverse_indices)
        IN  /\ SeqSum(ret.val.doclens) = Len(ret.val.D)
            /\ Len(ret.val.D) = CountTrue(Flatten(restored))
            /\ Len(ret.val.doclens) = Len(docs)

\* three documents in two chunks, restored by a permutation that is not the
\* identity, with padded or punctuation rows dropped
C7_Witness ==
    /\ ipc = "returned" /\ call.keep_dims = "flatten" /\ IsOk(ret)
    /\ Len(docs) = 3 /\ Len(batches) = 2
    /\ reverse_indices # Identity(3)
    /\ Len(ret.val.D) > 0
    /\ Len(ret.val.D) <
         Len(Flatten(Flatten([b \in 1..Len(encoded_batches) |-> encoded_batches[b].late])))

\* C8: in flattened mode the rows of D are, document by document in original
\* order, the embedding rows at the document's valid positions in position
\* order, and doclens[i] is the number of them, for text-only documents and
\* for documents encoded with the vision and the text segment.
C8_FlattenRowsInOriginalOrder ==
    ipc = "returned" /\ call.keep_dims = "flatten" /\ IsOk(ret) =>
        /\ ret.val.D = Flatten([i \in 1..Len(docs) |-> ValidRows(i)])
        /\ ret.val.doclens = [i \in 1..Len(docs) |-> Len(ValidRows(i))]

\* C9: in ragged mode doc(keep_dims=False) returns a list with one entry per
\* document, entry i the embedding rows of document i where its mask is true.
C9_RaggedListPerDocument ==
    /\ ipc = "returned"
    /\ call.keep_dims = "False"
    /\ call.bsize = 0
    /\ call.concat_text /\ ~call.concat_vision /\ ~call.to_cpu
    => /\ IsOk(ret)
       /\ ret.val.late = [i \in 1..Len(docs) |-> ValidRows(i)]

\* the numbers of attended tokens are in ascending order already
SortedByLength ==
    \A i, j \in 1..Len(docs) : i < j => Len(docs[i].text) <= Len(docs[j].text)

ChunkImages(b) ==
    IF call.mode = "features" THEN batches[b].image_features
    ELSE batches[b].image_paths

\* C11: parallel arrays stay aligned through sorting and chunking: in every
\* chunk handed to doc() the image in row r is the one the caller supplied in
\* the same tuple as the text in row r (the image of document j travels with
\* the token ids of document j), and every embedding row doc() computed for a
\* chunk row comes from that one document.
C11_ParallelArraysAligned ==
    ipc \in {"loop", "returned"} /\ call.bsize >= 1 /\ call.mode # "text" =>
        /\ \A b \in 1..Len(batches) :
              /\ Len(ChunkImages(b)) = Len(batches[b].ids)
              /\ \A r \in 1..Len(batches[b].ids) :
                    /\ ChunkImages(b)[r] \in 1..Len(docs)
                    /\ batches[b].ids[r] = IdsOf(ChunkImages(b)[r])
        /\ Flatten([b \in 1..Len(batches) |-> ChunkImages(b)])
              = Gather(Identity(Len(docs)),
                       ArgSort(reverse_indices))
        /\ \A b \in 1..Len(encoded_batches) :
              \A n \in 1..Len(encoded_batches[b].late) :
                 \A p, p2 \in 1..Len(encoded_batches[b].late[n]) :
                    LET row == encoded_batches[b].late[n]
                    IN  row[p].seg = "vision" /\ row[p2].seg = "text" =>
                           row[p2].src = IdsOf(row[p].src[1])

\* three documents with images, sorted by a permutation that moves them,
\* encoded in two chunks with the vision and the text segment
C11_Witness ==
    /\ ipc = "loop"
    /\ call.mode = "features"
    /\ call.concat_vision /\ call.concat_text
    /\ Len(docs) = 3 /\ Len(batches) = 2
    /\ Len(encoded_batches) = 2
    /\ reverse_indices # Identity(3)
    /\ ChunkImages(1)[1] # 1

(***************************************************************************)
(* Contrastive training: FLMRModelForRetrieval.forward from the encoders'  *)
(* outputs on (line 719), and compute_ib_loss_new.  Q holds B queries,     *)
(* D_padded and D_mask hold the documents, (1 + k) per query, each query's *)
(* positive first.  The documents are as doc() leaves text: a unit vector  *)
(* where the mask is true and the zero vector where it is false (line      *)
(* 925); the queries hold unit vectors.  The process is alone in its group *)
(* (world size 1).                                                         *)
(***************************************************************************)
MaxBatch == 2
MaxNeg == 2
\* largest number of document vectors of a training batch
MaxTrainCells == 6

\* a row of a tensor whose gradients matter: its value, and whether it
\* belongs to the process's original tensor or to a detached copy
Row(v) == [val |-> v, orig |-> TRUE]

\* x.detach()
detach(x) == [i \in 1..Len(x) |-> [x[i] EXCEPT !.orig = FALSE]]

\* a slip in the shortcut: the lone process gets detached copies
NoGather_Detached(query_embeddings, item_embeddings, item_mask) ==
    [Q |-> detach(query_embeddings), D |-> detach(item_embeddings),
     mask |-> detach(item_mask)]

\* the branch of gather_tensors_from_other_gpus for a group of one process
NoGather(query_embeddings, item_embeddings, item_mask) ==
    [Q |-> query_embeddings, D |-> item_embeddings, mask |-> item_mask]

\* a slip in the duplication: the batch of queries is tiled as a whole
repeat_interleave_Tiled(x, n) ==
    [j \in 1..(Len(x) * n) |-> x[((j - 1) % Len(x)) + 1]]

\* x.repeat_interleave(n, dim=0): every row n times in a row
repeat_interleave(x, n) ==
    [j \in 1..(Len(x) * n) |-> x[((j - 1) \div n) + 1]]

\* x.repeat(n, 1, 1): the whole tensor n times in a row
RepeatRows(x, n) ==
    [j \in 1..(Len(x) * n) |-> x[((j - 1) % Len(x)) + 1]]

\* a slip in the flattening: the blocks are laid out document-major
CrossScores_DocMajor(Qq, D) ==
    [r \in 1..(Len(Qq) * Len(D)) |->
        LET b == ((r - 1) % Len(Qq)) + 1
            j == ((r - 1) \div Len(Qq)) + 1
        IN  [p \in 1..Len(D[j]) |->
                [t \in 1..Len(Qq[b]) |-> Dot(D[j][p], Qq[b][t])]]]

\* (D.unsqueeze(0) @ Q.permute(0, 2, 1).unsqueeze(1)).flatten(0, 1): the block
\* of query b and document j is row (b - 1) * N + j
CrossScores(Qq, D) ==
    [r \in 1..(Len(Qq) * Len(D)) |->
        LET b == ((r - 1) \div Len(D)) + 1
            j == ((r - 1) % Len(D)) + 1
        IN  [p \in 1..Len(D[j]) |->
                [t \in 1..Len(Qq[b]) |-> Dot(D[j][p], Qq[b][t])]]]

\* x.reshape(rows, -1) of a vector
Reshape(flat, rows) ==
    LET cols == Len(flat) \div rows
    IN  [i \in 1..rows |-> [j \in 1..cols |-> flat[(i - 1) * cols + j]]]

\* torch.argmax(x, dim=1): per row the index, counted from 0, of the first
\* largest entry
ArgMax(x) ==
    [i \in 1..Len(x) |->
        CHOOSE j \in 0..(Len(x[i]) - 1) :
            /\ x[i][j + 1] = SeqMax(x[i])
            /\ \A j2 \in 0..(j - 1) : x[i][j2 + 1] < x[i][j + 1]]

\* a slip in the labels: one column per query
LabelStep_One(batch_size_with_pos_and_neg, batch_size) == 1

\* step = num_pos_and_neg = batch_size_with_pos_and_neg // batch_size
LabelStep(batch_size_with_pos_and_neg, batch_size) ==
    batch_size_with_pos_and_neg \div batch_size

\* lines 748-761: a one-hot row per query, the one at column step * i, and
\* its argmax
InBatchLabels(batch_size, batch_size_with_pos_and_neg) ==
    LET step == LabelStep(batch_size_with_pos_and_neg, batch_size)
    IN  ArgMax([i \in 1..batch_size |->
                   [j \in 1..batch_size_with_pos_and_neg |->
                       IF j - 1 = step * (i - 1) THEN 1 ELSE 0]])

\* the cross-entropy of the rows of input against the target columns; it is
\* kept as its two arguments
loss_fn(input, target) == [input |-> input, target |-> target]

compute_ib_loss_new(Qq, D, dmask) ==
    LET reduced == colbert_score_reduce(CrossScores(Qq, D), RepeatRows(dmask, Len(Qq)))
    IN  IF ~IsOk(reduced) THEN reduced
        ELSE Ok(loss_fn(Reshape(reduced.val, Len(Qq)),
                        InBatchLabels(Len(Qq), Len(D))))

\* forward from line 719 on
forward(Qq, D, dmask, f) ==
    LET g == IF f.in_batch_negatives_from_all_gpus
             THEN NoGather(Qq, D, dmask)
             ELSE [Q |-> Qq, D |-> D, mask |-> dmask]
        Q_duplicated == repeat_interleave(g.Q, f.num_negative_examples + 1)
        sc == score(Q_duplicated, g.D, g.mask)
        ib_loss == compute_ib_loss_new(g.Q, g.D, g.mask)
    IN  IF ~IsOk(sc) THEN sc
        ELSE IF f.use_in_batch_negatives
        THEN (IF IsOk(ib_loss)
              THEN Ok([scores |-> sc.val, ib_loss |-> ib_loss.val])
              ELSE ib_loss)
        ELSE Ok([scores |-> sc.val, ib_loss |-> None])

TrainShapes ==
    {s \in [b : 1..MaxBatch, k : 0..MaxNeg, dl : 1..MaxDLen, ql : 1..MaxQLen] :
        /\ s.b * (1 + s.k) * s.dl <= MaxTrainCells
        /\ s.b * s.ql <= MaxBatch}

TrainInit ==
    /\ \E s \in TrainShapes :
          /\ Q \in Tensors(s.b, s.ql, UnitVals)
          /\ D_mask \in Tensors(s.b * (1 + s.k), s.dl, BOOLEAN)
          /\ D_padded \in Tensors(s.b * (1 + s.k), s.dl, EmbVals)
          /\ \A n \in 1..(s.b * (1 + s.k)) : \A p \in 1..s.dl :
                D_mask[n][p] = (D_padded[n][p] # 0)
    /\ scores = NoResult
    /\ pc = "start"
    /\ loaded_extensions = FALSE
    /\ fwd = <<>>
    /\ IndexIdle
    /\ DistIdle
    /\ EncIdle
    /\ ModelIdle

\* a forward call of the trainer: one replica of a query per document of its
Forward ==
    /\ pc = "start"
    /\ \E use_ib \in BOOLEAN : \E all_gpus \in BOOLEAN :
          LET f == [num_negative_examples |-> (Len(D_padded) \div Len(Q)) - 1,
                    use_in_batch_negatives |-> use_ib,
                    in_batch_negatives_from_all_gpus |-> all_gpus]
          IN  /\ fwd' = f
              /\ scores' = forward(Q, D_padded, D_mask, f)
    /\ pc' = "done"
    /\ UNCHANGED <<Q, D_padded, D_mask, loaded_extensions>>
    /\ UNCHANGED indexVars
    /\ UNCHANGED distVars
    /\ UNCHANGED encVars
    /\ UNCHANGED modelVars

TrainNext == Forward

TrainSpec == TrainInit /\ [][TrainNext]_vars

\* the masked MaxSim score of one query against one document under its mask
PairScore(q, d, m) ==
    SeqSum([t \in 1..Len(q) |->
        SetMax({IF m[p] THEN Dot(d[p], q[t]) ELSE Sentinel : p \in 1..Len(d)})])

\* C12: in-batch labels: for B queries and N = B * (1 + k) documents the
\* label of query i is i * (1 + k) = i * (N div B), the index of its own
\* positive in the flattened document axis; for B = 2 and N = 6 the labels
\* are [0, 3]; every label is a valid column index (< N).
C12_InBatchLabels ==
    pc = "done" /\ fwd.use_in_batch_negatives =>
        /\ IsOk(scores)
        /\ LET labels == scores.val.ib_loss.target
               B == Len(Q)
               N == Len(D_padded)
           IN  /\ Len(labels) = B
               /\ \A i \in 0..(B - 1) :
                     /\ labels[i + 1] = i * (1 + fwd.num_negative_examples)
                     /\ labels[i + 1] = i * (N \div B)
                     /\ labels[i + 1] < N
               /\ (B = 2 /\ N = 6) => labels = <<0, 3>>

\* two queries with two negatives each
C12_Witness ==
    /\ pc = "done" /\ fwd.use_in_batch_negatives /\ IsOk(scores)
    /\ Len(Q) = 2 /\ Len(D_padded) = 6
    /\ scores.val.ib_loss.target = <<0, 3>>

\* C13: the in-batch score matrix has shape B x N and its entry (i, j) is the
\* masked MaxSim score of query i against document j under document j's own
\* mask.
C13_InBatchScoreMatrix ==
    pc = "done" /\ fwd.use_in_batch_negatives =>
        /\ IsOk(scores)
        /\ LET in_batch_scores == scores.val.ib_loss.input
           IN  /\ Len(in_batch_scores) = Len(Q)
               /\ \A i \in 1..Len(Q) :
                     /\ Len(in_batch_scores[i]) = Len(D_padded)
                     /\ \A j \in 1..Len(D_padded) :
                           in_batch_scores[i][j] =
                              PairScore(Q[i], D_padded[j], D_mask[j])

\* two different queries, documents with different masks, and a matrix that
\* is neither constant along its rows nor along its columns
C13_Witness ==
    /\ pc = "done" /\ fwd.use_in_batch_negatives /\ IsOk(scores)
    /\ Len(Q) = 2 /\ Len(D_padded) = 4
    /\ Q[1] # Q[2]
    /\ D_mask[1] # D_mask[2]
    /\ \E j \in 1..4 : scores.val.ib_loss.input[1][j] # scores.val.ib_loss.input[2][j]
    /\ \E j \in 1..4 : scores.val.ib_loss.input[1][1] # scores.val.ib_loss.input[1][j]

\* C14: forward repeats each query (1 + k) times with repeat-interleave, so
\* the returned score j (0 <= j < B * (1 + k)) is the MaxSim score of query
\* floor(j / (1 + k)) against document j: every query is scored against its
\* own positive and its own k negatives and against no other query's.
C14_ForwardPairsQueryWithOwnDocs ==
    pc = "done" =>
        /\ IsOk(scores)
        /\ LET k == fwd.num_negative_examples
           IN  /\ Len(scores.val.scores) = Len(Q) * (1 + k)
               /\ \A j \in 0..(Len(Q) * (1 + k) - 1) :
                     scores.val.scores[j + 1] =
                        PairScore(Q[(j \div (1 + k)) + 1],
                                  D_padded[j + 1], D_mask[j + 1])

\* two different queries with a negative each, and a document that the other
\* query would have scored differently
C14_Witness ==
    /\ pc = "done" /\ IsOk(scores)
    /\ Len(Q) = 2 /\ fwd.num_negative_examples = 1
    /\ Q[1] # Q[2]
    /\ \E j \in 1..4 :
          PairScore(Q[1], D_padded[j], D_mask[j])
             # PairScore(Q[2], D_padded[j], D_mask[j])

(***************************************************************************)
(* The gather step: gather_tensors_from_other_gpus in a group of W         *)
(* processes, ranks 0..W-1.  A tensor is the sequence of its rows; a row   *)
(* carries its value and whether it is the process's original tensor (the  *)
(* one its gradients flow through) or a detached copy.  all_gather is      *)
(* torch.distributed's blocking collective: the k-th call of a rank joins  *)
(* the k-th collective of the group and returns, with the list filled in   *)
(* rank order, once every rank of the group has joined it.                 *)
(***************************************************************************)
MaxWorkers == 3

Ranks(W) == 0..(W - 1)

\* [torch.zeros(*x.shape, dtype=x.dtype) for _ in range(n_nodes)]
Placeholder(x, n_nodes, zero) ==
    [rank_index \in Ranks(n_nodes) |->
        [i \in 1..Len(x) |-> [val |-> zero, orig |-> FALSE]]]

\* a slip in the collective: a rank does not wait for the others
all_gather_complete_NoWait(c) == TRUE

\* the c-th collective has been joined by every rank of the group
all_gather_complete(c) == \A r \in DOMAIN comm[c] : comm[c][r] # None

\* what all_gather leaves in the list: entry i is a copy of rank i's tensor
all_gather(tensor_list, c) ==
    [rank_index \in DOMAIN tensor_list |->
        IF comm[c][rank_index] = None THEN tensor_list[rank_index]
        ELSE comm[c][rank_index]]

\* a slip in the substitution: the gathered copies are used for every slot
Substitute_Skipped(tensor_list, own, current_rank) == tensor_list

\* lines 789-809: the process's own tensor in its own slot, the gathered
\* tensors in the others
Substitute(tensor_list, own, current_rank) ==
    [rank_index \in DOMAIN tensor_list |->
        IF rank_index # current_rank THEN tensor_list[rank_index] ELSE own]

\* torch.cat of a list indexed by rank
RECURSIVE CatFrom(_, _, _)
CatFrom(tensor_list, rank_index, n_nodes) ==
    IF rank_index >= n_nodes THEN <<>>
    ELSE tensor_list[rank_index] \o CatFrom(tensor_list, rank_index + 1, n_nodes)

\* a slip in the concatenation: the rows of the ranks are interleaved
cat_Interleaved(tensor_list) ==
    LET n_nodes == Cardinality(DOMAIN tensor_list)
    IN  [j \in 1..(n_nodes * Len(tensor_list[0])) |->
            tensor_list[(j - 1) % n_nodes][((j - 1) \div n_nodes) + 1]]

cat(tensor_list) == CatFrom(tensor_list, 0, Cardinality(DOMAIN tensor_list))

get_world_size == Cardinality(DOMAIN procs)

\* the local batch of a rank: one query, one document and its mask
LocalBatches ==
    {b \in [q : UnitVals, d : {0, 1}, m : BOOLEAN] : b.m = (b.d # 0)}

DistInit ==
    /\ \E W \in 1..MaxWorkers :
          /\ \E local \in [Ranks(W) -> LocalBatches] : \E calls \in [Ranks(W) -> BOOLEAN] :
                procs = [r \in Ranks(W) |->
                            [q |-> <<Row(local[r].q)>>,
                             d |-> <<Row(local[r].d)>>,
                             m |-> <<Row(local[r].m)>>,
                             in_batch_negatives_from_all_gpus |-> calls[r],
                             pc |-> "forward",
                             global_query_embeddings_placeholder |-> None,
                             global_item_embeddings_placeholder |-> None,
                             global_item_mask_placeholder |-> None,
                             out |-> None]]
          /\ comm = [c \in 1..3 |-> [r \in Ranks(W) |-> None]]
    /\ Q = <<>> /\ D_padded = <<>> /\ D_mask = <<>>
    /\ scores = NoResult
    /\ pc = "idle"
    /\ loaded_extensions = FALSE
    /\ IndexIdle
    /\ TrainIdle
    /\ EncIdle
    /\ ModelIdle

\* forward reaches line 722 with the flag set and calls the gather step: a
\* lone process returns at once, any other makes its placeholders and joins
\* the collective of the queries (lines 772-779)
EnterGather(r) ==
    /\ procs[r].pc = "forward"
    /\ procs[r].in_batch_negatives_from_all_gpus
    /\ LET n_nodes == get_world_size
           me == procs[r]
       IN  IF n_nodes = 1
           THEN /\ procs' = [procs EXCEPT ![r].pc = "returned",
                                          ![r].out = NoGather(me.q, me.d, me.m)]
                /\ UNCHANGED comm
           ELSE /\ procs' = [procs EXCEPT
                     ![r].pc = "all_gather_query",
                     ![r].global_query_embeddings_placeholder =
                         Placeholder(me.q, n_nodes, 0),
                     ![r].global_item_embeddings_placeholder =
                         Placeholder(me.d, n_nodes, 0),
                     ![r].global_item_mask_placeholder =
                         Placeholder(me.m, n_nodes, FALSE)]
                /\ comm' = [comm EXCEPT ![1][r] = detach(me.q)]
    /\ UNCHANGED <<scoreVars, indexVars, fwd, encVars, modelVars>>

\* forward with the flag unset goes on without the gather step
SkipGather(r) ==
    /\ procs[r].pc = "forward"
    /\ ~procs[r].in_batch_negatives_from_all_gpus
    /\ procs' = [procs EXCEPT ![r].pc = "skipped"]
    /\ UNCHANGED <<comm, scoreVars, indexVars, fwd, encVars, modelVars>>

\* the collective of the queries returns; the rank joins the collective of
\* the documents (lines 779-780)
GatherQuery(r) ==
    /\ procs[r].pc = "all_gather_query"
    /\ all_gather_complete(1)
    /\ procs' = [procs EXCEPT
          ![r].pc = "all_gather_item",
          ![r].global_query_embeddings_placeholder =
              all_gather(procs[r].global_query_embeddings_placeholder, 1)]
    /\ comm' = [comm EXCEPT ![2][r] = detach(procs[r].d)]
    /\ UNCHANGED <<scoreVars, indexVars, fwd, encVars, modelVars>>

\* the collective of the documents returns; the rank joins the collective of
\* the masks (lines 780-781)
GatherItem(r) ==
    /\ procs[r].pc = "all_gather_item"
    /\ all_gather_complete(2)
    /\ procs' = [procs EXCEPT
          ![r].pc = "all_gather_mask",
          ![r].global_item_embeddings_placeholder =
              all_gather(procs[r].global_item_embeddings_placeholder, 2)]
    /\ comm' = [comm EXCEPT ![3][r] = detach(procs[r].m)]
    /\ UNCHANGED <<scoreVars, indexVars, fwd, encVars, modelVars>>

\* the collective of the masks returns; the lists are rebuilt with the rank's
\* own tensors, concatenated and returned (lines 781-816)
GatherMask(r) ==
    /\ procs[r].pc = "all_gather_mask"
    /\ all_gather_complete(3)
    /\ LET me == procs[r]
           global_item_mask_placeholder ==
               all_gather(me.global_item_mask_placeholder, 3)
       IN  procs' = [procs EXCEPT
               ![r].pc = "returned",
               ![r].global_item_mask_placeholder = global_item_mask_placeholder,
               ![r].out =
                   [Q |-> cat(Substitute(me.global_query_embeddings_placeholder, me.q, r)),
                    D |-> cat(Substitute(me.global_item_embeddings_placeholder, me.d, r)),
                    mask |-> cat(Substitute(global_item_mask_placeholder, me.m, r))]]
    /\ UNCHANGED <<comm, scoreVars, indexVars, fwd, encVars, modelVars>>

DistNext ==
    \/ \E r \in DOMAIN procs : EnterGather(r)
    \/ \E r \in DOMAIN procs : SkipGather(r)
    \/ \E r \in DOMAIN procs : GatherQuery(r)
    \/ \E r \in DOMAIN procs : GatherItem(r)
    \/ \E r \in DOMAIN procs : GatherMask(r)

\* the steps of the process of rank r
Step(r) ==
    /\ r \in DOMAIN procs
    /\ \/ EnterGather(r)
       \/ SkipGather(r)
       \/ GatherQuery(r)
       \/ GatherItem(r)
       \/ GatherMask(r)

DistSpec == DistInit /\ [][DistNext]_vars

\* every process runs as long as it is not blocked in a collective
DistLiveSpec ==
    /\ DistInit
    /\ [][DistNext]_vars
    /\ \A r \in Ranks(MaxWorkers) : WF_vars(Step(r))

\* the values of a tensor, row by row
Vals(x) == [i \in 1..Len(x) |-> x[i].val]

NoCollectiveCall == \A c \in DOMAIN comm : \A r \in DOMAIN comm[c] : comm[c][r] = None

\* C15: with world size 1, gather_tensors_from_other_gpus returns the very
\* query embeddings, document embeddings and mask it was given, unchanged in
\* value and shape, and performs no collective call.
C15_WorldSizeOneIsNoOp ==
    get_world_size = 1 /\ 0 \in DOMAIN procs /\ procs[0].pc = "returned" =>
        /\ procs[0].out.Q = procs[0].q
        /\ procs[0].out.D = procs[0].d
        /\ procs[0].out.mask = procs[0].m
        /\ NoCollectiveCall

C15_Witness ==
    /\ get_world_size = 1 /\ 0 \in DOMAIN procs
    /\ procs[0].pc = "returned"
    /\ procs[0].out.Q = <<Row(-1)>>

\* rank i's tensor as rank r holds it after the gather
SlotOf(x, i, r) == IF i = r THEN x ELSE detach(x)

\* C16: with world size W > 1, after the gather every worker r holds the
\* concatenation, in rank order 0..W-1, of all workers' query embeddings,
\* document embeddings and masks; slot r of worker r is its own original
\* tensor and every other slot is a detached copy; all workers obtain the
\* same values in the same order.
C16_GatherConcatenatesInRankOrder ==
    get_world_size > 1 =>
        \A r \in DOMAIN procs : procs[r].pc = "returned" =>
            /\ procs[r].out.Q = cat([i \in DOMAIN procs |-> SlotOf(procs[i].q, i, r)])
            /\ procs[r].out.D = cat([i \in DOMAIN procs |-> SlotOf(procs[i].d, i, r)])
            /\ procs[r].out.mask = cat([i \in DOMAIN procs |-> SlotOf(procs[i].m, i, r)])
            /\ \A r2 \in DOMAIN procs : procs[r2].pc = "returned" =>
                  /\ Vals(procs[r2].out.Q) = Vals(procs[r].out.Q)
                  /\ Vals(procs[r2].out.D) = Vals(procs[r].out.D)
                  /\ Vals(procs[r2].out.mask) = Vals(procs[r].out.mask)

\* three workers with different batches, all back from the gather
C16_Witness ==
    /\ get_world_size = 3
    /\ \A r \in DOMAIN procs : procs[r].pc = "returned"
    /\ Vals(procs[1].out.Q) = <<1, -1, 1>>
    /\ Vals(procs[1].out.D) = <<0, 1, 1>>
    /\ procs[1].out.Q[2].orig /\ ~procs[1].out.Q[1].orig /\ ~procs[1].out.Q[3].orig

EveryProcessCalls == \A r \in DOMAIN procs : procs[r].in_batch_negatives_from_all_gpus

EveryProcessReturned == \A r \in DOMAIN procs : procs[r].pc = "returned"

NoProcessReturned == \A r \in DOMAIN procs : procs[r].pc # "returned"

\* C17: the gather step is a blocking collective: if every participating
\* process calls gather_tensors_from_other_gpus (three all_gather calls in
\* the order queries, documents, mask), every process eventually returns; if
\* at least one participating process never calls it, no other process ever
\* returns from it.
C17_GatherIsBlockingCollective ==
    /\ EveryProcessCalls ~> EveryProcessReturned
    /\ [](~EveryProcessCalls /\ get_world_size > 1 => NoProcessReturned)

\* three workers that all called, all back; the collectives were joined by all
C17_Witness ==
    /\ get_world_size = 3
    /\ EveryProcessCalls
    /\ EveryProcessReturned
    /\ \A c \in 1..3 : all_gather_complete(c)

(***************************************************************************)
(* The two encoders called on their own: FLMRModelForRetrieval.query and   *)
(* FLMRModelForRetrieval.doc, on every combination of present and absent   *)
(* inputs.  The modality flags are the resolved ones (an argument of None  *)
(* is replaced by the configuration's value, lines 830-834 and 901-905).   *)
(***************************************************************************)
\* the longest row of token ids
MaxIdsLen == 2

\* token ids: 0 is padding, 1 a word, 2 a punctuation symbol
TokenIds == {0, 1, 2}

\* a slip in the query mask: the punctuation is skipped on the query side too
QuerySkiplist_Punctuation == skiplist

\* skiplist=[] of line 853
QuerySkiplist == {}

\* the query encoders are the context encoders unless the configuration asks
\* for separate copies (lines 612-624); a copy computes its own rows
query_text_encoder(input_ids, attention_mask) ==
    context_text_encoder(input_ids, attention_mask)

query_vision_projection(images) == context_vision_projection(images)

query(input_ids, attention_mask, pixel_values, image_features, concat_vision, concat_text) ==
    LET has_image == pixel_values # None \/ image_features # None
        has_text == input_ids # None /\ attention_mask # None
        text_mask == mask(input_ids, QuerySkiplist)
        text_embeddings ==
            MulByMask(query_text_encoder(input_ids, attention_mask), text_mask)
        vision_embeddings ==
            query_vision_projection(
                IF image_features # None THEN image_features ELSE pixel_values)
        Qq == IF concat_vision /\ concat_text
              THEN CatDim1(vision_embeddings, text_embeddings)
              ELSE IF concat_vision THEN vision_embeddings
              ELSE text_embeddings
    IN  IF has_image /\ BothImageInputs(pixel_values, image_features)
        THEN Raise("AssertionError")
        ELSE IF Unassigned(has_image, has_text, concat_vision, concat_text)
        THEN Raise("UnboundLocalError")
        ELSE Ok([late |-> Qq])

\* doc() of a model as its constructor left it: without mask_punctuation no
\* skiplist attribute is set (lines 630-633) and line 924 reads it
ConfiguredDoc(mask_punctuation, a) ==
    LET res == doc(a.input_ids, a.attention_mask, a.pixel_values, a.image_features,
                   a.concat_vision, a.concat_text, a.keep_dims, a.return_mask)
    IN  IF /\ ~mask_punctuation
           /\ a.input_ids # None /\ a.attention_mask # None
           /\ res.exc # "AssertionError"
        THEN Raise("AttributeError")
        ELSE res

RECURSIVE SeqsUpTo(_, _)
SeqsUpTo(S, n) ==
    IF n = 0 THEN {<<>>}
    ELSE SeqsUpTo(S, n - 1)
         \cup {Append(x, v) : x \in {y \in SeqsUpTo(S, n - 1) : Len(y) = n - 1}, v \in S}

\* batches of one row of token ids
IdsBatches == {<<row>> : row \in SeqsUpTo(TokenIds, MaxIdsLen) \ {<<>>}}

EncInit ==
    /\ \E ids \in IdsBatches \cup {None} : \E with_mask \in BOOLEAN :
       \E a \in [pixel_values : {None, <<1>>}, image_features : {None, <<1>>},
                 concat_vision : BOOLEAN, concat_text : BOOLEAN,
                 keep_dims : {"True", "False", "return_mask"},
                 return_mask : BOOLEAN, mask_punctuation : BOOLEAN] :
          encArgs =
             [input_ids |-> ids,
              attention_mask |->
                  IF ~with_mask THEN None
                  ELSE IF ids = None THEN <<<<TRUE>>>>
                  ELSE [n \in 1..Len(ids) |-> [p \in 1..Len(ids[n]) |-> ids[n][p] # 0]],
              pixel_values |-> a.pixel_values,
              image_features |-> a.image_features,
              concat_vision |-> a.concat_vision,
              concat_text |-> a.concat_text,
              keep_dims |-> a.keep_dims,
              return_mask |-> a.return_mask,
              mask_punctuation |-> a.mask_punctuation]
    /\ encOut = <<>>
    /\ Q = <<>> /\ D_padded = <<>> /\ D_mask = <<>>
    /\ scores = NoResult
    /\ pc = "idle"
    /\ loaded_extensions = FALSE
    /\ IndexIdle
    /\ TrainIdle
    /\ DistIdle
    /\ ModelIdle

EncodeQuery ==
    /\ encOut = <<>>
    /\ encOut' = [side |-> "query",
                  res |-> query(encArgs.input_ids, encArgs.attention_mask,
                                encArgs.pixel_values, encArgs.image_features,
                                encArgs.concat_vision, encArgs.concat_text)]
    /\ UNCHANGED <<encArgs, scoreVars, indexVars, trainVars, distVars, modelVars>>

EncodeDoc ==
    /\ encOut = <<>>
    /\ encOut' = [side |-> "doc",
                  res |-> ConfiguredDoc(encArgs.mask_punctuation, encArgs)]
    /\ UNCHANGED <<encArgs, scoreVars, indexVars, trainVars, distVars, modelVars>>

EncNext == EncodeQuery \/ EncodeDoc

EncSpec == EncInit /\ [][EncNext]_vars

Called == encOut # <<>>

HasText == encArgs.input_ids # None /\ encArgs.attention_mask # None

HasImage == encArgs.pixel_values # None \/ encArgs.image_features # None

\* C18: query() and doc() fail with an error, and return no embeddings,
\* whenever both a precomputed image feature and a raw pixel tensor are
\* supplied in the same call, whatever the other inputs and flags are.
C18_FeatureAndPixelsRejected ==
    Called /\ encArgs.pixel_values # None /\ encArgs.image_features # None =>
        ~IsOk(encOut.res) /\ encOut.res.val = <<>>

\* both image inputs next to a complete text input, both modalities asked for
C18_Witness ==
    /\ Called /\ encOut.side = "query"
    /\ encArgs.pixel_values # None /\ encArgs.image_features # None
    /\ HasText
    /\ encArgs.concat_vision /\ encArgs.concat_text
    /\ encOut.res.exc = "AssertionError"

\* C19: for every combination of present and absent inputs and of the two
\* modality flags, query() and doc() fail with an error instead of returning
\* embeddings when (a) neither text nor image inputs are provided, (b) a
\* modality asked for by its flag has no inputs (text needs input_ids and
\* attention_mask, vision needs pixel_values or image_features), or (c) both
\* modality flags are false.
C19_MissingInputsRejected ==
    /\ Called
    /\ \/ ~HasText /\ ~HasImage
       \/ encArgs.concat_text /\ ~HasText
       \/ encArgs.concat_vision /\ ~HasImage
       \/ ~encArgs.concat_vision /\ ~encArgs.concat_text
    => ~IsOk(encOut.res)

\* the text segment asked for with token ids and no attention mask, next to
\* a usable image
C19_Witness ==
    /\ Called /\ encOut.side = "doc"
    /\ encArgs.input_ids # None /\ encArgs.attention_mask = None
    /\ encArgs.image_features # None /\ encArgs.pixel_values = None
    /\ encArgs.concat_text /\ ~encArgs.concat_vision
    /\ encArgs.mask_punctuation
    /\ encOut.res.exc = "UnboundLocalError"

\* the rows of the text segment of an encoder's output
TextSegment(rows) ==
    IF encArgs.concat_vision /\ encArgs.concat_text
    THEN SubSeq(rows, PrefixLength + 1, Len(rows))
    ELSE rows

\* C20: masking asymmetry: on the document side a text token is kept iff its
\* id is not 0 and not in the skiplist; on the query side a token is kept iff
\* its id is not 0, independent of the skiplist (a punctuation token id is
\* dropped by doc() and kept by query()).
C20_MaskingAsymmetry ==
    Called /\ IsOk(encOut.res) /\ encArgs.concat_text /\ encArgs.keep_dims # "False" =>
        \A n \in 1..Len(encArgs.input_ids) :
            LET ids == encArgs.input_ids[n]
                rows == TextSegment(encOut.res.val.late[n])
            IN  /\ Len(rows) = Len(ids)
                /\ \A p \in 1..Len(ids) :
                      LET kept == rows[p] = TextRow(ids, p)
                          dropped == rows[p] = ZeroRow
                      IN  /\ kept # dropped
                          /\ IF encOut.side = "doc"
                             THEN kept = (ids[p] # 0 /\ ids[p] \notin skiplist)
                             ELSE kept = (ids[p] # 0)
                /\ (encOut.side = "doc" /\ ~encArgs.concat_vision
                       /\ encArgs.return_mask) =>
                      encOut.res.val.context_mask[n] =
                         [p \in 1..Len(ids) |-> ids[p] # 0 /\ ids[p] \notin skiplist]

\* a query with a punctuation token and a padding token: the first is kept,
\* the second dropped, and doc() drops both
C20_Witness ==
    /\ Called /\ encOut.side = "query" /\ IsOk(encOut.res)
    /\ encArgs.input_ids = <<<<2, 0>>>>
    /\ ~encArgs.concat_vision
    /\ encArgs.mask_punctuation
    /\ encOut.res.val.late[1] = <<TextRow(<<2, 0>>, 1), ZeroRow>>
    /\ ConfiguredDoc(TRUE, [encArgs EXCEPT !.keep_dims = "True"]).val.late[1]
          = <<ZeroRow, ZeroRow>>

\* C29: with mask_punctuation = false in the configuration the model is still
\* usable for document encoding: doc() on text input succeeds and applies
\* padding-only masking (keeps every token whose id is not 0), since the
\* skiplist that doc() reads exists for every configuration.
C29_DocUsableWithoutPunctuationMask ==
    (/\ Called /\ encOut.side = "doc"
     /\ ~encArgs.mask_punctuation
     /\ HasText /\ ~HasImage
     /\ encArgs.concat_text /\ ~encArgs.concat_vision
     /\ encArgs.keep_dims # "False") =>
        /\ IsOk(encOut.res)
        /\ \A n \in 1..Len(encArgs.input_ids) :
              LET ids == encArgs.input_ids[n]
              IN  encOut.res.val.late[n] =
                     [p \in 1..Len(ids) |->
                         IF ids[p] # 0 THEN TextRow(ids, p) ELSE ZeroRow]

(***************************************************************************)
(* Model objects.  A module instance is an id into store, which holds its  *)
(* parameters: the instance whose initial values they are and the number   *)
(* of updates since.  An object's attributes map names to instance ids;    *)
(* reading a name that was never assigned raises AttributeError, as        *)
(* nn.Module.__getattr__ does.                                             *)
(***************************************************************************)
\* the most updates one instance's parameters receive
MaxStep == 1

\* an object under construction: nothing assigned, no error
Blank == [attrs |-> <<>>, store |-> <<>>, exc |-> ""]

\* self.name = Module(...): a new instance with parameters of its own
Fresh(c, name) ==
    IF c.exc # "" THEN c
    ELSE [attrs |-> (name :> (Len(c.store) + 1)) @@ c.attrs,
          store |-> Append(c.store, [origin |-> Len(c.store) + 1, step |-> 0]),
          exc |-> ""]

\* self.name = self.from: the same instance under a second name
Alias(c, name, from) ==
    IF c.exc # "" THEN c
    ELSE IF from \notin DOMAIN c.attrs THEN [c EXCEPT !.exc = "AttributeError"]
    ELSE [c EXCEPT !.attrs = (name :> c.attrs[from]) @@ c.attrs]

\* a slip in the copy: the copy is the original
DeepCopy_Alias(c, name, from) == Alias(c, name, from)

\* self.name = copy.deepcopy(self.from): a new instance whose parameters
\* equal the original's at the time of the copy
DeepCopy(c, name, from) ==
    IF c.exc # "" THEN c
    ELSE IF from \notin DOMAIN c.attrs THEN [c EXCEPT !.exc = "AttributeError"]
    ELSE [attrs |-> (name :> (Len(c.store) + 1)) @@ c.attrs,
          store |-> Append(c.store, c.store[c.attrs[from]]),
          exc |-> ""]

\* lines 630-633: the skiplist is built with the context tokenizer, and only
\* when the configuration masks punctuation
SetSkiplist(c, config) ==
    IF c.exc # "" \/ ~config.mask_punctuation THEN c
    ELSE IF ~config.context_tokenizer
    THEN [c EXCEPT !.exc = "AttributeError"]  \* None has no encode
    ELSE [c EXCEPT !.attrs = ("skiplist" :> 0) @@ c.attrs]

\* FLMRModelForRetrieval.__init__ (lines 571-637)
FLMRModelForRetrieval_init(config) ==
    LET c1 == Fresh(Blank, "context_text_encoder")
        c2 == Fresh(c1, "context_text_encoder_linear")
        c3 == Fresh(c2, "context_vision_projection")
        c4 == IF config.use_vision_encoder
              THEN Fresh(c3, "context_vision_encoder") ELSE c3
        c5 == IF config.separate_query_and_context_text_encoder
              THEN DeepCopy(c4, "query_text_encoder", "context_text_encoder")
              ELSE Alias(c4, "query_text_encoder", "context_text_encoder")
        c6 == IF config.separate_query_and_context_text_encoder
              THEN DeepCopy(c5, "query_text_encoder_linear", "context_text_encoder_linear")
              ELSE Alias(c5, "query_text_encoder_linear", "context_text_encoder_linear")
        c7 == IF config.separate_query_and_context_vision_encoder
              THEN DeepCopy(c6, "query_vision_encoder", "context_vision_encoder")
              ELSE Alias(c6, "query_vision_encoder", "context_vision_encoder")
        c8 == IF config.separate_query_and_context_vision_encoder
              THEN DeepCopy(c7, "query_vision_projection", "context_vision_projection")
              ELSE Alias(c7, "query_vision_projection", "context_vision_projection")
    IN  SetSkiplist(c8, config)

\* the attributes that hold modules
ModuleAttrs ==
    {"context_text_encoder", "context_text_encoder_linear",
     "context_vision_encoder", "context_vision_projection",
     "query_text_encoder", "query_text_encoder_linear",
     "query_vision_encoder", "query_vision_projection"}

\* the inputs of an encoder call: text alone, or text next to precomputed
\* image features or to pixel values
InputKinds == {"text", "text+features", "text+pixels"}

\* the attributes query() reads for these inputs (lines 850-869)
QueryReads(inputs) ==
    {"query_text_encoder", "query_text_encoder_linear"}
    \cup (IF inputs = "text" THEN {} ELSE {"query_vision_projection"})
    \cup (IF inputs = "text+pixels" THEN {"query_vision_encoder"} ELSE {})

\* the attributes doc() reads for these inputs (lines 921-940)
DocReads(inputs) ==
    {"context_text_encoder", "context_text_encoder_linear", "skiplist"}
    \cup (IF inputs = "text" THEN {} ELSE {"context_vision_projection"})
    \cup (IF inputs = "text+pixels" THEN {"context_vision_encoder"} ELSE {})

\* a method that reads the attributes names: it fails on a name that was
\* never assigned, and otherwise runs the module instances held under them
Run(o, names) ==
    IF \E a \in names : a \notin DOMAIN o.attrs
    THEN Raise("AttributeError")
    ELSE Ok([a \in names \cap ModuleAttrs |-> o.attrs[a]])

Configs ==
    [use_vision_encoder : BOOLEAN,
     separate_query_and_context_text_encoder : BOOLEAN,
     separate_query_and_context_vision_encoder : BOOLEAN,
     mask_punctuation : BOOLEAN,
     context_tokenizer : BOOLEAN]

ModelInit ==
    /\ \E config \in Configs :
          net = [cls |-> "FLMRModelForRetrieval", config |-> config,
                 attrs |-> <<>>, exc |-> "unbuilt"]
    /\ store = <<>>
    /\ netOut = NoResult
    /\ Q = <<>> /\ D_padded = <<>> /\ D_mask = <<>>
    /\ scores = NoResult
    /\ pc = "idle"
    /\ loaded_extensions = FALSE
    /\ IndexIdle
    /\ TrainIdle
    /\ DistIdle
    /\ EncIdle

Built == net # <<>> /\ net.exc = ""

\* the constructor call: the object, or the error that ended the constructor
Construct ==
    /\ net.exc = "unbuilt"
    /\ LET c == FLMRModelForRetrieval_init(net.config)
       IN  IF c.exc = ""
           THEN /\ net' = [net EXCEPT !.attrs = c.attrs, !.exc = ""]
                /\ store' = c.store
           ELSE /\ net' = [net EXCEPT !.exc = c.exc]
                /\ UNCHANGED store
    /\ UNCHANGED netOut
    /\ UNCHANGED <<scoreVars, indexVars, trainVars, distVars, encVars>>

\* an optimizer step on the parameters of the module held under one name
UpdateParameters ==
    /\ Built
    /\ \E a \in DOMAIN net.attrs \cap ModuleAttrs :
          /\ store[net.attrs[a]].step < MaxStep
          /\ store' = [store EXCEPT ![net.attrs[a]].step = @ + 1]
    /\ UNCHANGED <<net, netOut>>
    /\ UNCHANGED <<scoreVars, indexVars, trainVars, distVars, encVars>>

ModelQuery ==
    /\ Built
    /\ \E inputs \in InputKinds :
          netOut' = [op |-> "query", inputs |-> inputs,
                     res |-> Run(net, QueryReads(inputs))]
    /\ UNCHANGED <<net, store>>
    /\ UNCHANGED <<scoreVars, indexVars, trainVars, distVars, encVars>>

ModelDoc ==
    /\ Built
    /\ \E inputs \in InputKinds :
          netOut' = [op |-> "doc", inputs |-> inputs,
                     res |-> Run(net, DocReads(inputs))]
    /\ UNCHANGED <<net, store>>
    /\ UNCHANGED <<scoreVars, indexVars, trainVars, distVars, encVars>>

\* forward: query() then doc() on the same kind of inputs (lines 696-718)
ModelForward ==
    /\ Built
    /\ \E inputs \in InputKinds :
          netOut' = [op |-> "forward", inputs |-> inputs,
                     res |-> Run(net, QueryReads(inputs) \cup DocReads(inputs))]
    /\ UNCHANGED <<net, store>>
    /\ UNCHANGED <<scoreVars, indexVars, trainVars, distVars, encVars>>

\* docFromText: doc() on the tokenised texts
ModelDocFromText ==
    /\ Built
    /\ netOut' = [op |-> "docFromText", inputs |-> "text",
                  res |-> Run(net, DocReads("text"))]
    /\ UNCHANGED <<net, store>>
    /\ UNCHANGED <<scoreVars, indexVars, trainVars, distVars, encVars>>

ModelNext ==
    \/ Construct
    \/ UpdateParameters
    \/ ModelQuery
    \/ ModelDoc
    \/ ModelForward
    \/ ModelDocFromText

ModelSpec == ModelInit /\ [][ModelNext]_vars

\* the query-side and context-side names of the text and of the vision modules
TextPairs ==
    {<<"query_text_encoder", "context_text_encoder">>,
     <<"query_text_encoder_linear", "context_text_encoder_linear">>}

VisionPairs ==
    {<<"query_vision_encoder", "context_vision_encoder">>,
     <<"query_vision_projection", "context_vision_projection">>}

\* whether the configuration asks for a separate query side of this pair
Separate(pair) ==
    IF pair \in TextPairs
    THEN net.config.separate_query_and_context_text_encoder
    ELSE net.config.separate_query_and_context_vision_encoder

\* the parameters of the module held under a name, now and after the step
Param(a) == store[net.attrs[a]]
ParamNext(a) == store'[net'.attrs[a]]

\* shared: one instance under both names; separate: two instances
OwnershipAsConfigured ==
    Built =>
        \A pair \in TextPairs \cup VisionPairs :
            IF Separate(pair)
            THEN net.attrs[pair[1]] # net.attrs[pair[2]]
            ELSE /\ net.attrs[pair[1]] = net.attrs[pair[2]]
                 /\ Param(pair[1]) = Param(pair[2])

\* at the end of the constructor the two sides hold equal parameters
EqualWhenConstructed ==
    (~Built /\ Built') =>
        \A pair \in TextPairs \cup VisionPairs :
            ParamNext(pair[1]) = ParamNext(pair[2])

\* an update of one side of a separate pair leaves the other side alone
SeparateSidesIndependent ==
    Built =>
        \A pair \in TextPairs \cup VisionPairs :
            Separate(pair) =>
                \/ ParamNext(pair[1]) = Param(pair[1])
                \/ ParamNext(pair[2]) = Param(pair[2])

\* no operation on the constructed model rebinds an attribute
OwnershipFixed == Built => net' = net

C30_BuildsWithoutVisionEncoder ==
    (/\ net.exc # "unbuilt"
     /\ ~net.config.use_vision_encoder
     /\ net.config.mask_punctuation
     /\ net.config.context_tokenizer) =>
        /\ Built
        /\ IsOk(Run(net, QueryReads("text")))
        /\ IsOk(Run(net, DocReads("text")))

(***************************************************************************)
(* FLMRQuestionEncoder: its constructor and its forward.                   *)
(***************************************************************************)
\* FLMRQuestionEncoder.__init__ (lines 1325-1333): self.bert and self.linear
FLMRQuestionEncoder_init == Fresh(Fresh(Blank, "bert"), "linear")

\* FLMRQuestionEncoder.forward (lines 1337-1402): the checks of the inputs,
\* the default mask (input_ids != pad_token_id, or ones for embeddings) and
\* the call of self.question_encoder, whose pooled output is returned
FLMRQuestionEncoder_forward(o, a) ==
    IF a.input_ids # None /\ a.inputs_embeds # None
    THEN Raise("ValueError")
    ELSE IF a.input_ids = None /\ a.inputs_embeds = None
    THEN Raise("ValueError")
    ELSE LET attention_mask ==
                 IF a.attention_mask # None THEN a.attention_mask
                 ELSE IF a.input_ids = None
                 THEN [n \in 1..Len(a.inputs_embeds) |->
                          [p \in 1..Len(a.inputs_embeds[n]) |-> TRUE]]
                 ELSE [n \in 1..Len(a.input_ids) |->
                          [p \in 1..Len(a.input_ids[n]) |-> a.input_ids[n][p] # 0]]
         IN  IF "question_encoder" \notin DOMAIN o.attrs
             THEN Raise("AttributeError")
             ELSE Ok([kind |-> IF a.return_dict
                               THEN "FLMRQuestionEncoderOutput" ELSE "tuple",
                      pooler_output |->
                         [encoder |-> o.attrs["question_encoder"],
                          input |-> IF a.input_ids # None
                                    THEN a.input_ids ELSE a.inputs_embeds,
                          attention_mask |-> attention_mask,
                          token_type_ids |-> a.token_type_ids]])

QuestionInit ==
    /\ net = [cls |-> "FLMRQuestionEncoder", config |-> <<>>,
              attrs |-> <<>>, exc |-> "unbuilt"]
    /\ store = <<>>
    /\ netOut = NoResult
    /\ Q = <<>> /\ D_padded = <<>> /\ D_mask = <<>>
    /\ scores = NoResult
    /\ pc = "idle"
    /\ loaded_extensions = FALSE
    /\ IndexIdle
    /\ TrainIdle
    /\ DistIdle
    /\ EncIdle

ConstructQuestionEncoder ==
    /\ net.exc = "unbuilt"
    /\ net' = [net EXCEPT !.attrs = FLMRQuestionEncoder_init.attrs,
                          !.exc = FLMRQuestionEncoder_init.exc]
    /\ store' = FLMRQuestionEncoder_init.store
    /\ UNCHANGED netOut
    /\ UNCHANGED <<scoreVars, indexVars, trainVars, distVars, encVars>>

\* one forward call on the constructed encoder, on any combination of
\* present and absent arguments
QuestionForward ==
    /\ Built
    /\ \E ids \in IdsBatches \cup {None} : \E embeds \in {None, <<<<1>>>>} :
       \E with_mask, with_types, return_dict \in BOOLEAN :
          LET shaped == IF ids # None THEN ids ELSE <<<<1>>>>
              a == [input_ids |-> ids,
                    inputs_embeds |-> embeds,
                    attention_mask |->
                        IF with_mask
                        THEN [n \in 1..Len(shaped) |->
                                 [p \in 1..Len(shaped[n]) |-> TRUE]]
                        ELSE None,
                    token_type_ids |->
                        IF with_types
                        THEN [n \in 1..Len(shaped) |->
                                 [p \in 1..Len(shaped[n]) |-> 0]]
                        ELSE None,
                    return_dict |-> return_dict]
          IN  netOut' = [op |-> "forward", args |-> a,
                         res |-> FLMRQuestionEncoder_forward(net, a)]
    /\ UNCHANGED <<net, store>>
    /\ UNCHANGED <<scoreVars, indexVars, trainVars, distVars, encVars>>

QuestionNext ==
    \/ ConstructQuestionEncoder
    \/ QuestionForward

QuestionSpec == QuestionInit /\ [][QuestionNext]_vars

\* C27: calling FLMRQuestionEncoder.forward with input_ids only (no
\* attention_mask, token_type_ids or inputs_embeds) returns an output
\* carrying pooler_output, the question representation produced by the
\* encoder that the constructor created.
C27_QuestionEncoderReturnsPooledOutput ==
    (/\ netOut # NoResult
     /\ netOut.args.input_ids # None
     /\ netOut.args.inputs_embeds = None
     /\ netOut.args.attention_mask = None
     /\ netOut.args.token_type_ids = None) =>
        /\ IsOk(netOut.res)
        /\ netOut.res.val.pooler_output.encoder = net.attrs["bert"]

(***************************************************************************)
(* The span reader: FLMRSpanPredictor.forward on N passages of length L.   *)
(* A hidden state is named by what the encoder computes it from; the heads *)
(* are linear layers, applied to one hidden state at a time.               *)
(***************************************************************************)
\* the most passages in one call
MaxPassages == 2

\* BertModel on a batch: the hidden state at position p of a passage is
\* computed from that passage's token ids and attention mask
bert_model(input_ids, attention_mask) ==
    [n \in 1..Len(input_ids) |->
        [p \in 1..Len(input_ids[n]) |->
            [src |-> input_ids[n], att |-> attention_mask[n], pos |-> p]]]

\* FLMREncoder.forward (lines 188-221) with projection_dim = 0:
\* outputs[0] is the sequence output, outputs[1] its first position
FLMREncoder_forward(input_ids, attention_mask) ==
    LET sequence_output == bert_model(input_ids, attention_mask)
    IN  <<sequence_output,
          [n \in 1..Len(sequence_output) |-> sequence_output[n][1]]>>

\* nn.Linear(embeddings_size, 2) and nn.Linear(embeddings_size, 1) on one
\* hidden state (lines 236-237)
qa_outputs(h) == <<[head |-> "qa_outputs", out |-> 1, of |-> h],
                   [head |-> "qa_outputs", out |-> 2, of |-> h]>>

qa_classifier(h) == <<[head |-> "qa_classifier", out |-> 1, of |-> h]>>

\* logits.split(1, dim=-1)[k].squeeze(-1)
SplitLast(t, k) == [n \in 1..Len(t) |-> [p \in 1..Len(t[n]) |-> t[n][p][k]]]

\* a slip in the pooling: the last position instead of the first
FirstToken_Last(sequence_output) ==
    [n \in 1..Len(sequence_output) |-> sequence_output[n][Len(sequence_output[n])]]

\* sequence_output[:, 0, :]
FirstToken(sequence_output) ==
    [n \in 1..Len(sequence_output) |-> sequence_output[n][1]]

\* FLMRSpanPredictor.forward (lines 241-284)
FLMRSpanPredictor_forward(input_ids, attention_mask, return_dict) ==
    LET n_passages == Len(input_ids)
        sequence_length == Len(input_ids[1])
        outputs == FLMREncoder_forward(input_ids, attention_mask)
        sequence_output == outputs[1]
        logits == [n \in 1..Len(sequence_output) |->
                      [p \in 1..Len(sequence_output[n]) |->
                          qa_outputs(sequence_output[n][p])]]
        first == FirstToken(sequence_output)
        relevance == [n \in 1..Len(first) |-> qa_classifier(first[n])]
    IN  Ok([kind |-> IF return_dict THEN "FLMRReaderOutput" ELSE "tuple",
            start_logits |-> View(SplitLast(logits, 1), n_passages, sequence_length),
            end_logits |-> View(SplitLast(logits, 2), n_passages, sequence_length),
            relevance_logits |-> Flatten(relevance)])

ReaderInit ==
    /\ \E N \in 1..MaxPassages : \E L \in 1..MaxIdsLen :
       \E ids \in Tensors(N, L, TokenIds) :
       \E padded_mask, return_dict \in BOOLEAN :
          /\ N * L <= MaxCells
          /\ encArgs =
                    [input_ids |-> ids,
                     attention_mask |->
                         [n \in 1..N |-> [p \in 1..L |->
                             IF padded_mask THEN ids[n][p] # 0 ELSE TRUE]],
                     return_dict |-> return_dict]
    /\ encOut = <<>>
    /\ Q = <<>> /\ D_padded = <<>> /\ D_mask = <<>>
    /\ scores = NoResult
    /\ pc = "idle"
    /\ loaded_extensions = FALSE
    /\ IndexIdle
    /\ TrainIdle
    /\ DistIdle
    /\ ModelIdle

ReaderForward ==
    /\ encOut = <<>>
    /\ encOut' = [side |-> "reader",
                  res |-> FLMRSpanPredictor_forward(encArgs.input_ids,
                              encArgs.attention_mask, encArgs.return_dict)]
    /\ UNCHANGED <<encArgs, scoreVars, indexVars, trainVars, distVars, modelVars>>

ReaderNext == ReaderForward

ReaderSpec == ReaderInit /\ [][ReaderNext]_vars

\* the hidden state of position p of passage n of the call
HiddenOf(n, p) ==
    [src |-> encArgs.input_ids[n], att |-> encArgs.attention_mask[n], pos |-> p]

\* the reader's result on passage n alone
Alone(n) ==
    FLMRSpanPredictor_forward(<<encArgs.input_ids[n]>>,
        <<encArgs.attention_mask[n]>>, encArgs.return_dict).val

\* C25: for N passages of length L, FLMRSpanPredictor.forward returns
\* start_logits of shape (N, L), end_logits of shape (N, L) and
\* relevance_logits of shape (N,), where start/end logit (n, p) is computed
\* from passage n's position p and relevance logit n from passage n's
\* first-token position only; no value of passage n depends on any other
\* passage: each is what the reader returns for passage n alone.
C25_SpanReaderShapesAndIndependence ==
    Called =>
        LET N == Len(encArgs.input_ids)
            L == Len(encArgs.input_ids[1])
            r == encOut.res.val
        IN  /\ IsOk(encOut.res)
            /\ Len(r.start_logits) = N /\ Len(r.end_logits) = N
            /\ Len(r.relevance_logits) = N
            /\ \A n \in 1..N :
                  /\ Len(r.start_logits[n]) = L /\ Len(r.end_logits[n]) = L
                  /\ \A p \in 1..L :
                        /\ r.start_logits[n][p] = qa_outputs(HiddenOf(n, p))[1]
                        /\ r.end_logits[n][p] = qa_outputs(HiddenOf(n, p))[2]
                  /\ r.relevance_logits[n] = qa_classifier(HiddenOf(n, 1))[1]
                  /\ r.start_logits[n] = Alone(n).start_logits[1]
                  /\ r.end_logits[n] = Alone(n).end_logits[1]
                  /\ r.relevance_logits[n] = Alone(n).relevance_logits[1]

\* two different passages of two tokens: their relevance logits differ, and
\* a start logit differs from the end logit of its position
C25_Witness ==
    /\ Called /\ encOut.side = "reader" /\ IsOk(encOut.res)
    /\ Len(encArgs.input_ids) = 2 /\ Len(encArgs.input_ids[1]) = 2
    /\ encArgs.input_ids[1] # encArgs.input_ids[2]
    /\ encOut.res.val.relevance_logits[1] # encOut.res.val.relevance_logits[2]
    /\ encOut.res.val.start_logits[2][2] # encOut.res.val.end_logits[2][2]

(***************************************************************************)
(* Training across processes: every rank holds B queries and B * (1 + k)   *)
(* documents, each query's positive first, gathers as above and goes on    *)
(* in forward (lines 724-730).  A row's value names where it comes from:   *)
(* the rank, the query of that rank, and for a document its place among    *)
(* the query's documents (0 for the positive).                             *)
(***************************************************************************)
QueryRow(r, b) == Row([kind |-> "query", rank |-> r, b |-> b])

ItemRow(r, b, role) == Row([kind |-> "item", rank |-> r, b |-> b, role |-> role])

\* the local tensors of rank r
LocalQueries(r, B) == [b \in 1..B |-> QueryRow(r, b)]

LocalItems(r, B, k) ==
    [j \in 1..(B * (1 + k)) |->
        ItemRow(r, ((j - 1) \div (1 + k)) + 1, (j - 1) % (1 + k))]

GatherTrainInit ==
    /\ \E W \in 1..MaxWorkers : \E B \in 1..MaxBatch : \E k \in 0..MaxNeg :
       \E calls \in BOOLEAN :
          /\ procs = [r \in Ranks(W) |->
                         [q |-> LocalQueries(r, B),
                          d |-> LocalItems(r, B, k),
                          m |-> [j \in 1..(B * (1 + k)) |-> Row(TRUE)],
                          in_batch_negatives_from_all_gpus |-> calls,
                          num_negative_examples |-> k,
                          pc |-> "forward",
                          global_query_embeddings_placeholder |-> None,
                          global_item_embeddings_placeholder |-> None,
                          global_item_mask_placeholder |-> None,
                          out |-> None,
                          Q_duplicated |-> None,
                          labels |-> None]]
          /\ comm = [c \in 1..3 |-> [r \in Ranks(W) |-> None]]
    /\ Q = <<>> /\ D_padded = <<>> /\ D_mask = <<>>
    /\ scores = NoResult
    /\ pc = "idle"
    /\ loaded_extensions = FALSE
    /\ IndexIdle
    /\ TrainIdle
    /\ EncIdle
    /\ ModelIdle

\* forward after the gather step (lines 724-730): the queries are repeated
\* for the pairwise scores and compute_ib_loss_new makes its labels (lines
\* 748-761) from the tensors forward now holds
ScoreGathered(r) ==
    /\ procs[r].pc \in {"returned", "skipped"}
    /\ LET me == procs[r]
           g == IF me.pc = "returned" THEN me.out
                ELSE [Q |-> me.q, D |-> me.d, mask |-> me.m]
       IN  procs' = [procs EXCEPT
               ![r].pc = "scored",
               ![r].out = g,
               ![r].Q_duplicated =
                   repeat_interleave(g.Q, me.num_negative_examples + 1),
               ![r].labels = InBatchLabels(Len(g.Q), Len(g.D))]
    /\ UNCHANGED <<comm, scoreVars, indexVars, fwd, encVars, modelVars>>

GatherTrainNext ==
    \/ \E r \in DOMAIN procs : EnterGather(r)
    \/ \E r \in DOMAIN procs : SkipGather(r)
    \/ \E r \in DOMAIN procs : GatherQuery(r)
    \/ \E r \in DOMAIN procs : GatherItem(r)
    \/ \E r \in DOMAIN procs : GatherMask(r)
    \/ \E r \in DOMAIN procs : ScoreGathered(r)

GatherTrainSpec == GatherTrainInit /\ [][GatherTrainNext]_vars

\* C28: labels stay correct after a distributed gather: with W workers each
\* contributing B queries and B * (1 + k) documents laid out as [positive,
\* negatives] per query, on every worker the gathered query i (0 <= i < W*B)
\* has its own positive document at gathered document index i * (1 + k),
\* which is the label compute_ib_loss_new assigns to row i, and the
\* duplicated queries of forward stay aligned, query floor(j / (1 + k)) with
\* document j.
C28_LabelsCorrectAfterGather ==
    \A r \in DOMAIN procs :
        (procs[r].pc = "scored" /\ procs[r].in_batch_negatives_from_all_gpus) =>
            LET k == procs[r].num_negative_examples
                B == Len(procs[r].q)
                Qg == Vals(procs[r].out.Q)
                Dg == Vals(procs[r].out.D)
            IN  /\ Len(Qg) = get_world_size * B
                /\ Len(Dg) = get_world_size * B * (1 + k)
                /\ Len(procs[r].labels) = Len(Qg)
                /\ \A i \in 0..(Len(Qg) - 1) :
                      /\ Dg[i * (1 + k) + 1] =
                            [kind |-> "item", rank |-> Qg[i + 1].rank,
                             b |-> Qg[i + 1].b, role |-> 0]
                      /\ procs[r].labels[i + 1] = i * (1 + k)
                /\ Len(procs[r].Q_duplicated) = Len(Dg)
                /\ \A j \in 0..(Len(Dg) - 1) :
                      /\ procs[r].Q_duplicated[j + 1].val = Qg[(j \div (1 + k)) + 1]
                      /\ Dg[j + 1].rank = Qg[(j \div (1 + k)) + 1].rank
                      /\ Dg[j + 1].b = Qg[(j \div (1 + k)) + 1].b

\* three workers with two queries and a negative per query: the middle rank
\* has gathered and made its labels, the last of them for the second query
\* of rank 2
C28_Witness ==
    /\ get_world_size = 3
    /\ procs[1].pc = "scored"
    /\ procs[1].in_batch_negatives_from_all_gpus
    /\ Len(procs[1].q) = 2
    /\ procs[1].num_negative_examples = 1
    /\ procs[1].labels = <<0, 2, 4, 6, 8, 10>>
    /\ procs[1].out.D[11].val = [kind |-> "item", rank |-> 2, b |-> 2, role |-> 0]
    /\ procs[1].out.D[11].orig = FALSE
    /\ procs[1].out.D[5].orig = TRUE

====
